---- MODULE Spec2Model ----
(***************************************************************************)
(* Authentication and role-based access control core of the MNFST-RAG      *)
(* backend: password hashing, JWT issuance and validation, the identity    *)
(* middleware, the route guards, and the user and tenant endpoints that    *)
(* consume their decisions.                                                *)
(*                                                                         *)
(* Conventions.  UUIDs are positive integers handed out by counters, the   *)
(* null UUID is 0.  Absent strings (None) are "".  The clock counts        *)
(* seconds.  A request is one atomic step: middleware, dependencies and    *)
(* handler run without suspension in between.  Every handler is an         *)
(* operator from the store and the request to its outcome, so a property   *)
(* can speak about the answer to every request in every reachable state.   *)
(***************************************************************************)
EXTENDS Integers, Sequences, FiniteSets, TLC

VARIABLES
    users,          \* the rows of the users table
    tenants,        \* the rows of the tenants table
    nextUserId,     \* the next fresh user id (uuid4)
    nextTenantId,   \* the next fresh tenant id (uuid4)
    clock,          \* index of the current instant
    issued,         \* every token the service has generated
    spent,          \* history: the refresh tokens already exchanged
    writes,         \* history: how many requests have changed the store or issued tokens
    lastWrite,      \* history: the last such request
    password_hash_column,   \* whether the mapped users table keeps password_hash
    pending,        \* creation requests between their email lookup and their insert
    call,           \* history: the last direct call of a service function and its result
    documents,      \* the rows of the documents table
    social_links,   \* the rows of the social_links table
    chats,          \* the rows of the chats table
    sessions,       \* the rows of the sessions table
    messages        \* the rows of the messages table

\* The tables the authentication and user endpoints never touch.
tables == <<documents, social_links, chats, sessions, messages>>

vars ==
    <<users, tenants, nextUserId, nextTenantId, clock, issued, spent, writes, lastWrite,
      password_hash_column, pending, call, tables>>

(***************************************************************************)
(* Bounds of the model.                                                    *)
(***************************************************************************)
MaxUsers == 3
MaxTenants == 2
MaxTokens == 4
MaxTick == 2
MaxWrites == 3

(***************************************************************************)
(* Configuration (app/config.py).                                          *)
(***************************************************************************)
jwt_secret_key == "server-secret"
jwt_access_token_expire_minutes == 60
jwt_refresh_token_expire_days == 30
password_min_length == 8
password_salt_rounds == 12

AccessTTL == jwt_access_token_expire_minutes * 60
RefreshTTL == jwt_refresh_token_expire_days * 86400

(***************************************************************************)
(* Roles (app/models/user.py).                                             *)
(***************************************************************************)
USER == "user"
TENANT_ADMIN == "tenant_admin"
SUPERADMIN == "superadmin"
UserRole == {SUPERADMIN, TENANT_ADMIN, USER}

NoId == 0
NoTime == -1

(***************************************************************************)
(* The instants the clock visits.  Nothing happens between two requests,   *)
(* so the clock jumps from one instant of interest to the next: the        *)
(* expiry of an access token issued at 0, then the expiry of a refresh     *)
(* token issued at 0, then one access lifetime at a time.                  *)
(***************************************************************************)
Instant(i) ==
    CASE i = 0 -> 0
      [] i = 1 -> AccessTTL
      [] i = 2 -> RefreshTTL
      [] OTHER -> RefreshTTL + (i - 2) * AccessTTL

now == Instant(clock)

(***************************************************************************)
(* Passwords are sequences of characters.                                  *)
(***************************************************************************)
UpperChars == {"P", "X"}
LowerChars == {"a", "d", "m", "i", "n", "t", "e", "s", "w", "o", "r", "h"}
DigitChars == {"0", "1", "2", "3"}

PwAdmin == <<"a", "d", "m", "i", "n", "1", "2", "3">>
PwTenant == <<"t", "e", "n", "a", "n", "t", "1", "2", "3">>
PwStrong == <<"P", "a", "s", "s", "w", "o", "r", "d", "1">>
PwShort1 == <<"s", "h", "o", "r", "t", "1">>
PwWrong == <<"w", "r", "o", "n", "g">>

Passwords == {PwAdmin, PwTenant, PwStrong, PwWrong}

Salts == {"salt1"}

(***************************************************************************)
(* PasswordService (app/services/password.py).                             *)
(***************************************************************************)
\* bcrypt.hashpw: the output embeds the algorithm, the cost and the salt.
hash_password(password, salt) ==
    [fmt |-> "bcrypt", rounds |-> password_salt_rounds, salt |-> salt,
     digest |-> <<salt, password>>]

\* A row without the attribute, a stored hash that is the empty string,
\* and one that bcrypt cannot parse.
AbsentHash == [fmt |-> "absent", rounds |-> 0, salt |-> "", digest |-> <<>>]
EmptyHash == [fmt |-> "empty", rounds |-> 0, salt |-> "", digest |-> <<>>]
MalformedHash == [fmt |-> "malformed", rounds |-> 0, salt |-> "", digest |-> <<>>]

\* bcrypt.checkpw re-hashes the password with the salt embedded in the
\* stored hash; a stored hash it cannot parse makes it raise ValueError
\* ("Invalid salt"), which verify_password does not catch.
verify_password(password, hashed_password) ==
    IF hashed_password.fmt # "bcrypt"
    THEN "ValueError"
    ELSE IF hashed_password.digest = <<hashed_password.salt, password>>
         THEN "True" ELSE "False"

AnyIn(password, chars) == \E i \in 1..Len(password) : password[i] \in chars

\* validate_password_strength as it would be without the length rule.
validate_password_strength_any_length(password) ==
    IF ~AnyIn(password, UpperChars)
    THEN [is_valid |-> FALSE, message |-> "Password must contain at least one uppercase letter"]
    ELSE IF ~AnyIn(password, LowerChars)
    THEN [is_valid |-> FALSE, message |-> "Password must contain at least one lowercase letter"]
    ELSE IF ~AnyIn(password, DigitChars)
    THEN [is_valid |-> FALSE, message |-> "Password must contain at least one digit"]
    ELSE [is_valid |-> TRUE, message |-> "Password meets strength requirements"]

\* validate_password_strength as it would be if it checked the character
\* classes before the length.
validate_password_strength_case_first(password) ==
    IF ~AnyIn(password, UpperChars)
    THEN [is_valid |-> FALSE, message |-> "Password must contain at least one uppercase letter"]
    ELSE IF ~AnyIn(password, LowerChars)
    THEN [is_valid |-> FALSE, message |-> "Password must contain at least one lowercase letter"]
    ELSE IF ~AnyIn(password, DigitChars)
    THEN [is_valid |-> FALSE, message |-> "Password must contain at least one digit"]
    ELSE IF Len(password) < password_min_length
    THEN [is_valid |-> FALSE, message |-> "Password must be at least 8 characters long"]
    ELSE [is_valid |-> TRUE, message |-> "Password meets strength requirements"]

validate_password_strength(password) ==
    IF Len(password) < password_min_length
    THEN [is_valid |-> FALSE, message |-> "Password must be at least 8 characters long"]
    ELSE IF ~AnyIn(password, UpperChars)
    THEN [is_valid |-> FALSE, message |-> "Password must contain at least one uppercase letter"]
    ELSE IF ~AnyIn(password, LowerChars)
    THEN [is_valid |-> FALSE, message |-> "Password must contain at least one lowercase letter"]
    ELSE IF ~AnyIn(password, DigitChars)
    THEN [is_valid |-> FALSE, message |-> "Password must contain at least one digit"]
    ELSE [is_valid |-> TRUE, message |-> "Password meets strength requirements"]

(***************************************************************************)
(* JWTService (app/services/jwt.py).  A token is the record of its format, *)
(* the key it was signed with and its claims; claims a token does not      *)
(* carry read as None ("" or 0), as payload.get returns them.              *)
(***************************************************************************)
NullToken ==
    [fmt |-> "none", key |-> "", type |-> "", sub |-> NoId, email |-> "",
     role |-> "", tenant_id |-> NoId, iat |-> 0, exp |-> 0]

\* generate_access_token as it would be if it wrote str(tenant_id) into the
\* claim: the text "None", not null, for a user without tenant.
generate_access_token_str_tenant(user_id, email, role, tenant_id, t) ==
    [fmt |-> "jwt", key |-> jwt_secret_key, type |-> "access", sub |-> user_id,
     email |-> email, role |-> role, tenant_id |-> IF tenant_id = NoId THEN -1 ELSE tenant_id,
     iat |-> t, exp |-> t + AccessTTL]

generate_access_token(user_id, email, role, tenant_id, t) ==
    [fmt |-> "jwt", key |-> jwt_secret_key, type |-> "access", sub |-> user_id,
     email |-> email, role |-> role, tenant_id |-> tenant_id,
     iat |-> t, exp |-> t + AccessTTL]

generate_refresh_token(user_id, t) ==
    [fmt |-> "jwt", key |-> jwt_secret_key, type |-> "refresh", sub |-> user_id,
     email |-> "", role |-> "", tenant_id |-> NoId,
     iat |-> t, exp |-> t + RefreshTTL]

\* validate_token as it would be with options={"verify_exp": False}.
validate_token_no_expiry(token, t) ==
    IF token.fmt = "jwt" /\ token.key = jwt_secret_key
    THEN token
    ELSE NullToken

\* validate_token as it would be without its except clauses: the exception
\* jwt.decode raised leaves the function.
validate_token_raising(token, t) ==
    IF token.fmt = "jwt" /\ token.key = jwt_secret_key /\ token.exp > t
    THEN token
    ELSE [NullToken EXCEPT !.fmt = "InvalidTokenError"]

\* validate_token as it would be with a server-side list of used tokens.
validate_token_revocable(token, t) ==
    IF token \in spent \/ token.fmt # "jwt" \/ token.key # jwt_secret_key \/ token.exp <= t
    THEN NullToken
    ELSE token

\* jwt.decode: the token parses, the signature verifies under the server
\* key and exp lies in the future; every failure is caught and yields None.
validate_token(token, t) ==
    IF token.fmt = "jwt" /\ token.key = jwt_secret_key /\ token.exp > t
    THEN token
    ELSE NullToken

\* validate_access_token as it would be without the check of the type claim.
validate_access_token_untyped(token, t) == validate_token(token, t)

validate_access_token(token, t) ==
    LET payload == validate_token(token, t)
    IN  IF payload # NullToken /\ payload.type = "access" THEN payload ELSE NullToken

validate_refresh_token(token, t) ==
    LET payload == validate_token(token, t)
    IN  IF payload # NullToken /\ payload.type = "refresh" THEN payload ELSE NullToken

(***************************************************************************)
(* The store: user rows (app/models/user.py) and tenant rows               *)
(* (app/models/tenant.py).  Every writer passes password_hash= to User()   *)
(* and authenticate_user reads user.password_hash, but the table class     *)
(* declares no such field, and a SQLModel table class drops the keyword    *)
(* arguments it has no field for.  Whether a row keeps its password_hash   *)
(* is therefore a property of the deployed mapping, fixed when the         *)
(* program starts: password_hash_column.                                   *)
(***************************************************************************)
NullUser ==
    [id |-> NoId, email |-> "", name |-> "", role |-> "", tenant_id |-> NoId,
     password_hash |-> AbsentHash, last_login |-> NoTime]

User(id, email, name, role, tenant_id, password_hash) ==
    [id |-> id, email |-> email, name |-> name, role |-> role,
     tenant_id |-> tenant_id,
     password_hash |-> IF password_hash_column THEN password_hash ELSE AbsentHash,
     last_login |-> NoTime]

Tenant(id, name, slug) == [id |-> id, name |-> name, slug |-> slug]

AdminEmail == "admin@mnfst-rag.com"
TenantAdminEmail == "tenant-admin@example.com"
AliceEmail == "alice@x.com"
Emails == {AdminEmail, TenantAdminEmail, AliceEmail}
CreateNames == {"Alice"}
UpdateNames == {"", "Bob"}
Slugs == {"default", "acme"}

\* select(User).where(User.id == user_id).first()
UsersById(store, user_id) == {u \in store : u.id = user_id}
\* select(User).where(User.email == email)
UsersByEmail(store, email) == {u \in store : u.email = email}

\* DatabaseSeeder.seed_initial_data: superadmin, default tenant, its admin.
SeedUsers(h1, h2) ==
    {User(1, AdminEmail, "System Administrator", SUPERADMIN, NoId, h1),
     User(2, TenantAdminEmail, "Tenant Administrator", TENANT_ADMIN, 1, h2)}

SeedTenants == {Tenant(1, "Default Tenant", "default")}

(***************************************************************************)
(* Requests.  The Authorization header is a scheme and credentials; the    *)
(* absent header has the empty scheme.  Clients present the tokens the     *)
(* service issued, tokens signed with a key of their own, or garbage.      *)
(***************************************************************************)
GarbageToken == [NullToken EXCEPT !.fmt = "garbage"]

ForgedAccess ==
    [fmt |-> "jwt", key |-> "attacker-key", type |-> "access", sub |-> 1,
     email |-> AdminEmail, role |-> SUPERADMIN, tenant_id |-> NoId,
     iat |-> 0, exp |-> 2 * RefreshTTL]

ForgedRefresh ==
    [fmt |-> "jwt", key |-> "attacker-key", type |-> "refresh", sub |-> 1,
     email |-> "", role |-> "", tenant_id |-> NoId,
     iat |-> 0, exp |-> 2 * RefreshTTL]

Presentable == issued \cup {ForgedAccess, ForgedRefresh, GarbageToken}

NoHeader == [scheme |-> "", credentials |-> NullToken]

\* The headers of the requests the system serves as steps: none, and
\* every token in circulation or a forged one as bearer credentials.
SentHeaders ==
    {NoHeader} \cup {[scheme |-> "Bearer", credentials |-> t] : t \in issued \cup {ForgedAccess}}

\* Every header a request can carry.  HTTPBearer compares the scheme in
\* lower case and the middleware does not, so a guarded handler answers
\* "bearer <token>" as it answers "Bearer <token>" while the middleware
\* treats the two differently.  A request that a guard rejects leaves the
\* store as it is, so the steps of guarded handlers send SentHeaders only;
\* the middleware and the properties see every header.
Headers ==
    SentHeaders
    \cup {[scheme |-> "Bearer", credentials |-> t] : t \in Presentable}
    \cup {[scheme |-> "bearer", credentials |-> t] : t \in issued}
    \cup {[scheme |-> "Basic", credentials |-> GarbageToken]}

PathRoot == <<>>
PathHealth == <<"health">>
PathLogin == <<"api", "v1", "auth", "login">>
PathRefresh == <<"api", "v1", "auth", "refresh">>
PathLogout == <<"api", "v1", "auth", "logout">>
PathUsers == <<"api", "v1", "users", "">>
PathUser == <<"api", "v1", "users", "{userId}">>
PathTenants == <<"api", "v1", "tenants">>
PathTenant == <<"api", "v1", "tenants", "{tenantId}">>
PathSocial == <<"api", "v1", "social-links", "">>
Paths ==
    {PathRoot, PathHealth, PathLogin, PathRefresh, PathLogout, PathUsers, PathUser,
     PathTenants, PathTenant, PathSocial}

IsPrefix(p, path) == Len(p) <= Len(path) /\ SubSeq(path, 1, Len(p)) = p

(***************************************************************************)
(* AuthenticationMiddleware (app/middleware/auth.py).                      *)
(***************************************************************************)
\* path in exact_match_paths, or path.startswith("/api/v1/auth/")
should_skip_auth(path) ==
    \/ path \in {PathRoot, PathHealth, <<"docs">>, <<"redoc">>, <<"openapi.json">>}
    \/ (IsPrefix(<<"api", "v1", "auth">>, path) /\ Len(path) > 3)

NoIdentity ==
    [attached |-> FALSE, user_id |-> NoId, user_email |-> "", user_role |-> "",
     tenant_id |-> NoId]

\* dispatch as it would be if a token that fails validation ended the
\* request in the middleware.
dispatch_rejecting(path, header, t) ==
    IF should_skip_auth(path) \/ header.scheme # "Bearer"
    THEN [identity |-> NoIdentity, forwards |-> 1]
    ELSE LET payload == validate_access_token(header.credentials, t)
         IN  IF payload # NullToken
             THEN [identity |-> [attached |-> TRUE, user_id |-> payload.sub,
                                 user_email |-> payload.email,
                                 user_role |-> payload.role,
                                 tenant_id |-> payload.tenant_id],
                   forwards |-> 1]
             ELSE [identity |-> NoIdentity, forwards |-> 0]

\* What dispatch leaves in request.state, and how often it calls call_next.
dispatch(path, header, t) ==
    IF should_skip_auth(path)
    THEN [identity |-> NoIdentity, forwards |-> 1]
    ELSE IF header.scheme # "Bearer"
    THEN [identity |-> NoIdentity, forwards |-> 1]
    ELSE LET payload == validate_access_token(header.credentials, t)
         IN  IF payload # NullToken
             THEN [identity |-> [attached |-> TRUE, user_id |-> payload.sub,
                                 user_email |-> payload.email,
                                 user_role |-> payload.role,
                                 tenant_id |-> payload.tenant_id],
                   forwards |-> 1]
             ELSE [identity |-> NoIdentity, forwards |-> 1]

(***************************************************************************)
(* Route dependencies (app/dependencies/auth.py).  A dependency returns    *)
(* the user it resolved, or the HTTP error it raised.                      *)
(***************************************************************************)
Resolved(user) == [ok |-> TRUE, status |-> 200, detail |-> "", user |-> user]
Raised(status, detail) == [ok |-> FALSE, status |-> status, detail |-> detail, user |-> NullUser]

\* HTTPBearer() answers a request without bearer credentials itself; the
\* status of that answer is the framework's (403 in the older releases of
\* FastAPI, 401 in the newer ones), so both are outcomes of the build.
NotAuthenticatedStatus == {401, 403}

\* security = HTTPBearer(): the scheme is compared case-insensitively.
get_token_from_credentials(header, st) ==
    IF header.scheme = ""
    THEN [ok |-> FALSE, status |-> st, detail |-> "Not authenticated", token |-> NullToken]
    ELSE IF header.scheme \notin {"Bearer", "bearer"}
    THEN [ok |-> FALSE, status |-> st, detail |-> "Invalid authentication credentials", token |-> NullToken]
    ELSE [ok |-> TRUE, status |-> 200, detail |-> "", token |-> header.credentials]

get_current_user_token(header, st, t) ==
    LET cred == get_token_from_credentials(header, st)
        payload == validate_access_token(cred.token, t)
    IN  IF ~cred.ok
        THEN [ok |-> FALSE, status |-> cred.status, detail |-> cred.detail, payload |-> NullToken]
        ELSE IF payload = NullToken
        THEN [ok |-> FALSE, status |-> 401, detail |-> "Invalid or expired token", payload |-> NullToken]
        ELSE [ok |-> TRUE, status |-> 200, detail |-> "", payload |-> payload]

get_current_user(store, header, st, t) ==
    LET tp == get_current_user_token(header, st, t)
        found == UsersById(store, tp.payload.sub)
    IN  IF ~tp.ok
        THEN Raised(tp.status, tp.detail)
        ELSE IF tp.payload.sub = NoId
        THEN Raised(401, "Invalid token payload")
        ELSE IF found = {}
        THEN Raised(401, "User not found")
        ELSE Resolved(CHOOSE u \in found : TRUE)

get_current_active_user(store, header, st, t) == get_current_user(store, header, st, t)

role_hierarchy(role) ==
    CASE role = USER -> 0
      [] role = TENANT_ADMIN -> 1
      [] role = SUPERADMIN -> 2
      [] OTHER -> 0

\* InsufficientRoleError: f"Requires {required_role} role or higher"
InsufficientRoleDetail(required_role) ==
    CASE required_role = USER -> "Requires user role or higher"
      [] required_role = TENANT_ADMIN -> "Requires tenant_admin role or higher"
      [] required_role = SUPERADMIN -> "Requires superadmin role or higher"
      [] OTHER -> "Requires role or higher"

\* require_role as it would be if it compared the role claim of the token
\* instead of the role of the row get_current_user fetched.
require_role_from_claims(required_role, store, header, st, t) ==
    LET cu == get_current_active_user(store, header, st, t)
        payload == get_current_user_token(header, st, t).payload
    IN  IF ~cu.ok
        THEN cu
        ELSE IF role_hierarchy(payload.role) < role_hierarchy(required_role)
        THEN Raised(403, InsufficientRoleDetail(required_role))
        ELSE cu

\* require_role as it would be if it admitted only the required role itself.
require_role_exact(required_role, store, header, st, t) ==
    LET cu == get_current_active_user(store, header, st, t)
    IN  IF ~cu.ok
        THEN cu
        ELSE IF role_hierarchy(cu.user.role) # role_hierarchy(required_role)
        THEN Raised(403, InsufficientRoleDetail(required_role))
        ELSE cu

require_role(required_role, store, header, st, t) ==
    LET cu == get_current_active_user(store, header, st, t)
    IN  IF ~cu.ok
        THEN cu
        ELSE IF role_hierarchy(cu.user.role) < role_hierarchy(required_role)
        THEN Raised(403, InsufficientRoleDetail(required_role))
        ELSE cu

require_superadmin(store, header, st, t) == require_role(SUPERADMIN, store, header, st, t)
require_tenant_admin(store, header, st, t) == require_role(TENANT_ADMIN, store, header, st, t)

(***************************************************************************)
(* AuthenticationService (app/services/auth.py).                           *)
(***************************************************************************)
\* The outcome of authenticate_user on the row the email lookup returned
\* (NullUser when there is none): the user, None, or the exception that
\* verify_password let through.
authenticate_user(user, password) ==
    IF user # NullUser /\ user.password_hash.fmt \notin {"absent", "empty"}
    THEN LET v == verify_password(password, user.password_hash)
         IN  IF v = "ValueError" THEN "raise"
             ELSE IF v = "True" THEN "user" ELSE "none"
    ELSE "none"

create_tokens(user, t) ==
    [access_token |-> generate_access_token(user.id, user.email, user.role, user.tenant_id, t),
     refresh_token |-> generate_refresh_token(user.id, t)]

NoTokens == [access_token |-> NullToken, refresh_token |-> NullToken]

\* refresh_access_token as it would be without the lookup of the user: the
\* new tokens are made from the claims of the refresh token.
refresh_access_token_without_lookup(store, refresh_token, t) ==
    LET payload == validate_refresh_token(refresh_token, t)
    IN  IF payload = NullToken THEN NoTokens
        ELSE IF payload.sub = NoId THEN NoTokens
        ELSE [access_token |-> generate_access_token(payload.sub, payload.email, payload.role,
                                                     payload.tenant_id, t),
              refresh_token |-> generate_refresh_token(payload.sub, t)]

\* refresh_access_token as it would be if the new access token repeated the
\* claims of an access token issued to the user earlier.
refresh_access_token_from_issued(store, refresh_token, t) ==
    LET payload == validate_refresh_token(refresh_token, t)
        found == UsersById(store, payload.sub)
        earlier == {a \in issued : a.type = "access" /\ a.sub = payload.sub}
        old == CHOOSE a \in earlier : TRUE
    IN  IF payload = NullToken THEN NoTokens
        ELSE IF payload.sub = NoId THEN NoTokens
        ELSE IF found = {} THEN NoTokens
        ELSE IF earlier = {} THEN create_tokens(CHOOSE u \in found : TRUE, t)
        ELSE [access_token |-> generate_access_token(old.sub, old.email, old.role, old.tenant_id, t),
              refresh_token |-> generate_refresh_token(old.sub, t)]

\* refresh_access_token: the new pair of tokens, or NoTokens for None.
refresh_access_token(store, refresh_token, t) ==
    LET payload == validate_refresh_token(refresh_token, t)
        found == UsersById(store, payload.sub)
    IN  IF payload = NullToken THEN NoTokens
        ELSE IF payload.sub = NoId THEN NoTokens
        ELSE IF found = {} THEN NoTokens
        ELSE create_tokens(CHOOSE u \in found : TRUE, t)

(***************************************************************************)
(* Handlers.  Each handler is an operator from the store, the clock and    *)
(* the request to its outcome: the response (status, detail), whether the  *)
(* handler body ran (ran is FALSE when a dependency rejected the request), *)
(* the row the dependencies resolved as current_user, the rows it          *)
(* returned, modified or deleted, the tokens it generated, and the store   *)
(* it leaves.  header is the Authorization header and st the status        *)
(* HTTPBearer answers with when there are no bearer credentials.           *)
(***************************************************************************)
NoTenant == [id |-> NoId, name |-> "", slug |-> ""]

Outcome(status, detail, ran, caller, touched, tokens, users2, tenants2, new_user, new_tenant) ==
    [status |-> status, detail |-> detail, ran |-> ran, caller |-> caller,
     touched |-> touched, tokens |-> tokens, users |-> users2, tenants |-> tenants2,
     new_user |-> new_user, new_tenant |-> new_tenant]

\* A response that leaves the store as it is.
Reply(store, tstore, status, detail, ran, caller, touched) ==
    Outcome(status, detail, ran, caller, touched, NoTokens, store, tstore, NullUser, NoTenant)

(***************************************************************************)
(* Authentication endpoints (app/api/v1/auth.py).                          *)
(***************************************************************************)
\* POST /api/v1/auth/login; user is the row the email lookup returned,
\* NullUser when there is none.
login(store, tstore, user, password, t) ==
    LET outcome == authenticate_user(user, password)
        logged == [user EXCEPT !.last_login = t]
    IN  IF outcome = "user"
        THEN Outcome(200, "Login successful", TRUE, NullUser, {user}, create_tokens(logged, t),
                     (store \ {user}) \cup {logged}, tstore, NullUser, NoTenant)
        ELSE IF outcome = "none"
        THEN Reply(store, tstore, 401, "Invalid email or password", TRUE, NullUser, {})
        ELSE Reply(store, tstore, 500, "An error occurred during login: Invalid salt", TRUE, NullUser, {})

\* POST /api/v1/auth/refresh; the empty refresh_token is NullToken.  The
\* response carries the new access token only.
refresh_token(store, tstore, token, t) ==
    LET tokens == refresh_access_token(store, token, t)
    IN  IF token = NullToken
        THEN Reply(store, tstore, 422, "Refresh token is required", TRUE, NullUser, {})
        ELSE IF tokens = NoTokens
        THEN Reply(store, tstore, 401, "Invalid token", TRUE, NullUser, {})
        ELSE Outcome(200, "Token refreshed successfully", TRUE, NullUser,
                     UsersById(store, token.sub), [tokens EXCEPT !.refresh_token = NullToken],
                     store, tstore, NullUser, NoTenant)

\* POST /api/v1/auth/logout
logout(store, tstore, header, st, t) ==
    LET cu == get_current_active_user(store, header, st, t)
    IN  IF ~cu.ok
        THEN Reply(store, tstore, cu.status, cu.detail, FALSE, NullUser, {})
        ELSE Reply(store, tstore, 200, "Logged out successfully", TRUE, cu.user, {})

(***************************************************************************)
(* User endpoints (app/api/v1/users.py).  current_user is the row that     *)
(* get_current_user read from the store for this request.                  *)
(***************************************************************************)
\* The rows the query of get_users selects.
get_users_rows(store, current_user) ==
    IF current_user.role = SUPERADMIN
    THEN store
    ELSE {u \in store : u.tenant_id = current_user.tenant_id}

\* GET /api/v1/users/
get_users(store, tstore, header, st, t) ==
    LET cu == require_tenant_admin(store, header, st, t)
    IN  IF ~cu.ok
        THEN Reply(store, tstore, cu.status, cu.detail, FALSE, NullUser, {})
        ELSE Reply(store, tstore, 200, "Users retrieved successfully", TRUE, cu.user,
                   get_users_rows(store, cu.user))

\* The tenant_id create_user gives the new row.
create_user_tenant_id(current_user, requested_tenant_id) ==
    IF current_user.role = SUPERADMIN THEN requested_tenant_id ELSE current_user.tenant_id

\* The detail of the 500 create_user answers with when an exception with
\* the message reaches its except Exception:
\* f"An error occurred while creating user: {str(e)}".
create_user_error(message) ==
    CASE message = "Password must be at least 8 characters long" ->
           "An error occurred while creating user: Password must be at least 8 characters long"
      [] message = "Password must contain at least one uppercase letter" ->
           "An error occurred while creating user: Password must contain at least one uppercase letter"
      [] message = "Password must contain at least one lowercase letter" ->
           "An error occurred while creating user: Password must contain at least one lowercase letter"
      [] message = "Password must contain at least one digit" ->
           "An error occurred while creating user: Password must contain at least one digit"
      [] OTHER -> "An error occurred while creating user: foreign key violation"

\* create_user as it would be without the lookup of the email.
create_user_without_lookup(store, tstore, header, st, t, email, password, name, role, tenant_id, new_id, salt) ==
    LET cu == require_tenant_admin(store, header, st, t)
        tid == create_user_tenant_id(cu.user, tenant_id)
        strength == validate_password_strength(password)
        user == User(new_id, email, name, role, tid, hash_password(password, salt))
    IN  IF ~cu.ok
        THEN Reply(store, tstore, cu.status, cu.detail, FALSE, NullUser, {})
        ELSE IF ~strength.is_valid
        THEN Reply(store, tstore, 500, create_user_error(strength.message), TRUE, cu.user, {})
        ELSE IF tid # NoId /\ tid \notin {x.id : x \in tstore}
        THEN Reply(store, tstore, 500, create_user_error(""), TRUE, cu.user, {})
        ELSE Outcome(201, "User created successfully", TRUE, cu.user, {}, NoTokens,
                     store \cup {user}, tstore, user, NoTenant)

\* POST /api/v1/users/.  A weak password makes create_user_with_password
\* raise ValueError and a tenant_id without a tenant row breaks the foreign
\* key at commit; the handler turns both into 500.  new_id is the uuid4 of
\* the new row and salt the salt bcrypt draws.
create_user(store, tstore, header, st, t, email, password, name, role, tenant_id, new_id, salt) ==
    LET cu == require_tenant_admin(store, header, st, t)
        tid == create_user_tenant_id(cu.user, tenant_id)
        strength == validate_password_strength(password)
        user == User(new_id, email, name, role, tid, hash_password(password, salt))
    IN  IF ~cu.ok
        THEN Reply(store, tstore, cu.status, cu.detail, FALSE, NullUser, {})
        ELSE IF UsersByEmail(store, email) # {}
        THEN Reply(store, tstore, 409, "User with this email already exists", TRUE, cu.user, {})
        ELSE IF ~strength.is_valid
        THEN Reply(store, tstore, 500, create_user_error(strength.message), TRUE, cu.user, {})
        ELSE IF tid # NoId /\ tid \notin {x.id : x \in tstore}
        THEN Reply(store, tstore, 500, create_user_error(""), TRUE, cu.user, {})
        ELSE Outcome(201, "User created successfully", TRUE, cu.user, {}, NoTokens,
                     store \cup {user}, tstore, user, NoTenant)

\* user_access_allowed as it would be without the comparison of tenants.
user_access_allowed_any_tenant(current_user, user) ==
    IF current_user.role = USER THEN user.id = current_user.id ELSE TRUE

\* The authorization check of get_user and update_user.
user_access_allowed(current_user, user) ==
    IF current_user.role = USER
    THEN user.id = current_user.id
    ELSE IF current_user.role = TENANT_ADMIN
    THEN user.tenant_id = current_user.tenant_id
    ELSE TRUE

\* GET /api/v1/users/{userId}
get_user(store, tstore, header, st, t, userId) ==
    LET cu == get_current_active_user(store, header, st, t)
        found == UsersById(store, userId)
    IN  IF ~cu.ok
        THEN Reply(store, tstore, cu.status, cu.detail, FALSE, NullUser, {})
        ELSE IF found = {}
        THEN Reply(store, tstore, 404, "User not found", TRUE, cu.user, {})
        ELSE IF ~user_access_allowed(cu.user, CHOOSE u \in found : TRUE)
        THEN Reply(store, tstore, 403, "Not authorized to access this user", TRUE, cu.user, {})
        ELSE Reply(store, tstore, 200, "User retrieved successfully", TRUE, cu.user, found)

\* The row update_user would commit if the role were assigned for every
\* caller.
updated_user_any_caller(current_user, user, name, role) ==
    [user EXCEPT
       !.name = IF name # "" THEN name ELSE @,
       !.role = IF role # "" THEN role ELSE @]

\* The row update_user commits; an absent name or role is "".
updated_user(current_user, user, name, role) ==
    [user EXCEPT
       !.name = IF name # "" THEN name ELSE @,
       !.role = IF role # "" /\ current_user.role \in {TENANT_ADMIN, SUPERADMIN} THEN role ELSE @]

\* PUT /api/v1/users/{userId}
update_user(store, tstore, header, st, t, userId, name, role) ==
    LET cu == get_current_active_user(store, header, st, t)
        found == UsersById(store, userId)
        user == CHOOSE u \in found : TRUE
    IN  IF ~cu.ok
        THEN Reply(store, tstore, cu.status, cu.detail, FALSE, NullUser, {})
        ELSE IF found = {}
        THEN Reply(store, tstore, 404, "User not found", TRUE, cu.user, {})
        ELSE IF ~user_access_allowed(cu.user, user)
        THEN Reply(store, tstore, 403, "Not authorized to update this user", TRUE, cu.user, {})
        ELSE Outcome(200, "User updated successfully", TRUE, cu.user, {user}, NoTokens,
                     (store \ {user}) \cup {updated_user(cu.user, user, name, role)}, tstore,
                     NullUser, NoTenant)

\* The check of delete_user as it would be if a tenant admin's tenant were
\* not compared.
delete_access_allowed_any_tenant(current_user, user) == TRUE

\* The authorization check of delete_user.
delete_access_allowed(current_user, user) ==
    IF current_user.role = TENANT_ADMIN
    THEN user.tenant_id = current_user.tenant_id
    ELSE TRUE

\* DELETE /api/v1/users/{userId}.  The 400 raised for a self-deletion is
\* caught by the handler's own except Exception and leaves as 500.
delete_user(store, tstore, header, st, t, userId) ==
    LET cu == require_tenant_admin(store, header, st, t)
        found == UsersById(store, userId)
        user == CHOOSE u \in found : TRUE
    IN  IF ~cu.ok
        THEN Reply(store, tstore, cu.status, cu.detail, FALSE, NullUser, {})
        ELSE IF found = {}
        THEN Reply(store, tstore, 404, "User not found", TRUE, cu.user, {})
        ELSE IF ~delete_access_allowed(cu.user, user)
        THEN Reply(store, tstore, 403, "Not authorized to delete this user", TRUE, cu.user, {})
        ELSE IF user.id = cu.user.id
        THEN Reply(store, tstore, 500,
                   "An error occurred while deleting user: 400: Cannot delete your own account",
                   TRUE, cu.user, {})
        ELSE Outcome(204, "", TRUE, cu.user, {user}, NoTokens, store \ {user}, tstore,
                     NullUser, NoTenant)

(***************************************************************************)
(* Tenant endpoints (app/api/v1/tenants.py) and the services behind them.  *)
(***************************************************************************)
\* TenantService.create_tenant: the slug lookup, add and flush; error is the
\* ValueError message, tenants the rows the session sees afterwards.
TenantService_create_tenant(tstore, name, slug, new_tenant_id) ==
    IF \E x \in tstore : x.slug = slug
    THEN [error |-> "Tenant with this slug already exists", tenants |-> tstore,
          tenant |-> NoTenant]
    ELSE [error |-> "", tenants |-> tstore \cup {Tenant(new_tenant_id, name, slug)},
          tenant |-> Tenant(new_tenant_id, name, slug)]

\* UserService.create_user: the email lookup, the strength check, add and flush
UserService_create_user(store, email, password, name, role, tenant_id, new_id, salt) ==
    LET strength == validate_password_strength(password)
        user == User(new_id, email, name, role, tenant_id, hash_password(password, salt))
    IN  IF UsersByEmail(store, email) # {}
        THEN [error |-> "User with this email already exists", users |-> store,
              user |-> NullUser]
        ELSE IF ~strength.is_valid
        THEN [error |-> strength.message, users |-> store, user |-> NullUser]
        ELSE [error |-> "", users |-> store \cup {user}, user |-> user]

\* The transaction as it would be if the except branch did not roll back.
create_tenant_with_admin_no_rollback(store, tstore, name, slug, admin_email, admin_name, admin_password, new_tenant_id, new_id, salt) ==
    LET created == TenantService_create_tenant(tstore, name, slug, new_tenant_id)
        admin == UserService_create_user(store, admin_email, admin_password, admin_name,
                                         TENANT_ADMIN, created.tenant.id, new_id, salt)
    IN  IF created.error # ""
        THEN [error |-> created.error, users |-> store, tenants |-> tstore,
              tenant |-> NoTenant, admin_user |-> NullUser]
        ELSE [error |-> admin.error, users |-> admin.users, tenants |-> created.tenants,
              tenant |-> created.tenant, admin_user |-> admin.user]

\* TenantCreationService.create_tenant_with_admin: both services work in one
\* session; commit() makes the session's rows the stored ones, rollback()
\* in the except branch leaves the stored ones as they were.
create_tenant_with_admin(store, tstore, name, slug, admin_email, admin_name, admin_password, new_tenant_id, new_id, salt) ==
    LET created == TenantService_create_tenant(tstore, name, slug, new_tenant_id)
        admin == UserService_create_user(store, admin_email, admin_password, admin_name,
                                         TENANT_ADMIN, created.tenant.id, new_id, salt)
    IN  IF created.error # ""
        THEN [error |-> created.error, users |-> store, tenants |-> tstore,
              tenant |-> NoTenant, admin_user |-> NullUser]
        ELSE IF admin.error # ""
        THEN [error |-> admin.error, users |-> store, tenants |-> tstore,
              tenant |-> NoTenant, admin_user |-> NullUser]
        ELSE [error |-> "", users |-> admin.users, tenants |-> created.tenants,
              tenant |-> created.tenant, admin_user |-> admin.user]

\* POST /api/v1/tenants
create_tenant(store, tstore, header, st, t, name, slug, admin_email, admin_name, admin_password, new_tenant_id, new_id, salt) ==
    LET cu == require_superadmin(store, header, st, t)
        made == create_tenant_with_admin(store, tstore, name, slug, admin_email, admin_name,
                                         admin_password, new_tenant_id, new_id, salt)
    IN  IF ~cu.ok
        THEN Reply(store, tstore, cu.status, cu.detail, FALSE, NullUser, {})
        ELSE IF made.error # ""
        THEN Outcome(400, made.error, TRUE, cu.user, {}, NoTokens,
                     made.users, made.tenants, NullUser, NoTenant)
        ELSE Outcome(201, "Tenant created successfully", TRUE, cu.user, {}, NoTokens,
                     made.users, made.tenants, made.admin_user, made.tenant)

\* Rows of the documents and social_links tables, by the columns the
\* services select on.
Document(id, tenant_id, user_id) == [id |-> id, tenant_id |-> tenant_id, user_id |-> user_id]

SocialLink(id, tenant_id) == [id |-> id, tenant_id |-> tenant_id]

\* The cascade as it would be without the delete of the tenant's documents.
delete_tenant_cascade_keeping_documents(store, tstore, docs, links, tenant_id) ==
    IF ~(\E x \in tstore : x.id = tenant_id)
    THEN [deleted |-> FALSE, users |-> store, tenants |-> tstore, documents |-> docs,
          social_links |-> links]
    ELSE [deleted |-> TRUE,
          social_links |-> {l \in links : l.tenant_id # tenant_id},
          documents |-> docs,
          users |-> {u \in store : u.tenant_id # tenant_id},
          tenants |-> {x \in tstore : x.id # tenant_id}]

\* TenantService.delete_tenant_cascade_static: the lookup of the tenant, the
\* four deletes of delete_tenant_cascade in one session, and the commit.
delete_tenant_cascade(store, tstore, docs, links, tenant_id) ==
    IF ~(\E x \in tstore : x.id = tenant_id)
    THEN [deleted |-> FALSE, users |-> store, tenants |-> tstore, documents |-> docs,
          social_links |-> links]
    ELSE [deleted |-> TRUE,
          social_links |-> {l \in links : l.tenant_id # tenant_id},
          documents |-> {d \in docs : d.tenant_id # tenant_id},
          users |-> {u \in store : u.tenant_id # tenant_id},
          tenants |-> {x \in tstore : x.id # tenant_id}]

\* DELETE /api/v1/tenants/{tenantId}; the users and tenants it leaves.
delete_tenant(store, tstore, header, st, t, tenantId) ==
    LET cu == require_superadmin(store, header, st, t)
        cascade == delete_tenant_cascade(store, tstore, {}, {}, tenantId)
    IN  IF ~cu.ok
        THEN Reply(store, tstore, cu.status, cu.detail, FALSE, NullUser, {})
        ELSE IF ~cascade.deleted
        THEN Reply(store, tstore, 404, "Tenant not found", TRUE, cu.user, {})
        ELSE Outcome(204, "", TRUE, cu.user, store \ cascade.users, NoTokens, cascade.users,
                     cascade.tenants, NullUser, NoTenant)

(***************************************************************************)
(* The system.  The store starts as DatabaseSeeder.seed_initial_data       *)
(* leaves it; then any client sends any request at any time.  An action    *)
(* is one request: it applies the handler's outcome to the store.  A       *)
(* request that changed the store or issued tokens is counted in writes    *)
(* and noted in lastWrite: the operation, its status and the user id that  *)
(* the presented credential names.                                         *)
(***************************************************************************)
UserIds == 1..MaxUsers
TenantIds == 1..MaxTenants

Note(op, status, subject) == [op |-> op, status |-> status, subject |-> subject]

\* No service function has been called directly.
NoCall == [fn |-> "none"]

Init0 ==
    /\ tenants = SeedTenants
    /\ nextUserId = 3
    /\ nextTenantId = 2
    /\ clock = 0
    /\ issued = {}
    /\ spent = {}
    /\ writes = 0
    /\ lastWrite = Note("start", 200, NoId)
    /\ pending = {}
    /\ call = NoCall
    /\ documents = {}
    /\ social_links = {}
    /\ chats = {}
    /\ sessions = {}
    /\ messages = {}

\* The store with every kind of password_hash a row can hold: the hash the
\* seeder computed, the empty string, and a string bcrypt cannot parse.
InitLogin ==
    /\ password_hash_column \in BOOLEAN
    /\ \E h1 \in {hash_password(PwAdmin, "salt1"), EmptyHash, MalformedHash},
          h2 \in {hash_password(PwTenant, "salt1"), EmptyHash, MalformedHash} :
          users = SeedUsers(h1, h2)
    /\ Init0

Init ==
    /\ password_hash_column \in BOOLEAN
    /\ users = SeedUsers(hash_password(PwAdmin, "salt1"), hash_password(PwTenant, "salt1"))
    /\ Init0

\* The effect of an outcome o on the store, the id counters and the tokens
\* in circulation.
Apply(op, subject, o) ==
    LET toks == {o.tokens.access_token, o.tokens.refresh_token} \ {NullToken}
        wrote == o.users # users \/ o.tenants # tenants \/ toks # {}
    IN  /\ wrote => writes < MaxWrites
        /\ o.new_user # NullUser => nextUserId <= MaxUsers
        /\ o.new_tenant # NoTenant => nextTenantId <= MaxTenants
        /\ Cardinality(issued \cup toks) <= MaxTokens
        /\ users' = o.users
        /\ tenants' = o.tenants
        /\ nextUserId' = IF o.new_user # NullUser THEN nextUserId + 1 ELSE nextUserId
        /\ nextTenantId' = IF o.new_tenant # NoTenant THEN nextTenantId + 1 ELSE nextTenantId
        /\ issued' = issued \cup toks
        /\ writes' = IF wrote THEN writes + 1 ELSE writes
        /\ lastWrite' = IF wrote THEN Note(op, o.status, subject) ELSE lastWrite
        /\ UNCHANGED <<clock, password_hash_column, call>>

\* The parameters worth sending: a request the dependencies reject never
\* has its parameters read, so one value d stands for all of S.
Pick(ok, S, d) == IF ok THEN S ELSE {d}

\* The statuses HTTPBearer may answer with; it answers only when the
\* header carries no bearer credentials.
StatusChoices(header) ==
    IF header.scheme \in {"Bearer", "bearer"} THEN {401} ELSE NotAuthenticatedStatus

Tick ==
    /\ clock < MaxTick
    /\ clock' = clock + 1
    /\ UNCHANGED <<users, tenants, nextUserId, nextTenantId, issued, spent, writes, lastWrite,
                   password_hash_column, pending, call, tables>>

\* GET /health (app/main.py) and GET /api/v1/social-links/ (app/api/v1/social.py):
\* routes without a guard.  The request passes the middleware, which calls
\* the route once; the route reads no identity and touches no store.
health_check(header) ==
    /\ dispatch(PathHealth, header, now).forwards = 1
    /\ UNCHANGED vars

get_social_links(header) ==
    /\ dispatch(PathSocial, header, now).forwards = 1
    /\ UNCHANGED vars

Login(email, password) ==
    LET cands == UsersByEmail(users, email)
    IN  \E user \in (IF cands = {} THEN {NullUser} ELSE cands) :
          /\ Apply("login", user.id, login(users, tenants, user, password, now))
          /\ UNCHANGED <<spent, pending, tables>>

RefreshToken(token) ==
    LET o == refresh_token(users, tenants, token, now)
    IN  /\ Apply("refresh", token.sub, o)
        /\ spent' = IF o.status = 200 THEN spent \cup {token} ELSE spent
        /\ UNCHANGED <<pending, tables>>

Logout(header, st) ==
    /\ Apply("logout", header.credentials.sub, logout(users, tenants, header, st, now))
    /\ UNCHANGED <<spent, pending, tables>>

GetUsers(header, st) ==
    /\ Apply("get_users", header.credentials.sub, get_users(users, tenants, header, st, now))
    /\ UNCHANGED <<spent, pending, tables>>

CreateUser(header, st) ==
    LET ok == require_tenant_admin(users, header, st, now).ok
    IN  \E email \in Pick(ok, Emails, AliceEmail), name \in CreateNames,
           role \in Pick(ok, UserRole, USER),
           tenant_id \in Pick(ok, {NoId} \cup TenantIds, NoId), salt \in Salts :
        \E password \in Pick(ok /\ role = USER /\ tenant_id = NoId, {PwStrong, PwShort1}, PwStrong) :
          /\ Apply("create_user", header.credentials.sub,
                   create_user(users, tenants, header, st, now, email, password, name, role,
                               tenant_id, nextUserId, salt))
          /\ UNCHANGED <<spent, pending, tables>>

GetUser(header, st) ==
    LET ok == get_current_active_user(users, header, st, now).ok
    IN  \E userId \in Pick(ok, UserIds, 1) :
          /\ Apply("get_user", header.credentials.sub, get_user(users, tenants, header, st, now, userId))
          /\ UNCHANGED <<spent, pending, tables>>

UpdateUser(header, st) ==
    LET ok == get_current_active_user(users, header, st, now).ok
    IN  \E userId \in Pick(ok, UserIds, 1), name \in Pick(ok, UpdateNames, ""),
           role \in Pick(ok, UserRole \cup {""}, "") :
          /\ Apply("update_user", header.credentials.sub,
                   update_user(users, tenants, header, st, now, userId, name, role))
          /\ UNCHANGED <<spent, pending, tables>>

DeleteUser(header, st) ==
    LET ok == require_tenant_admin(users, header, st, now).ok
    IN  \E userId \in Pick(ok, UserIds, 1) :
          /\ Apply("delete_user", header.credentials.sub,
                   delete_user(users, tenants, header, st, now, userId))
          /\ UNCHANGED <<spent, pending, tables>>

CreateTenant(header, st) ==
    LET ok == require_superadmin(users, header, st, now).ok
    IN  \E slug \in Pick(ok, Slugs, "acme"), admin_email \in Pick(ok, Emails, AliceEmail),
           salt \in Salts :
        \E admin_password \in Pick(ok /\ slug = "acme", {PwStrong, PwShort1}, PwStrong) :
          /\ Apply("create_tenant", header.credentials.sub,
                   create_tenant(users, tenants, header, st, now, "Acme", slug, admin_email, "Alice",
                                 admin_password, nextTenantId, nextUserId, salt))
          /\ UNCHANGED <<spent, pending, tables>>

DeleteTenant(header, st) ==
    LET ok == require_superadmin(users, header, st, now).ok
    IN  \E tenantId \in Pick(ok, TenantIds, 1) :
          LET o == delete_tenant(users, tenants, header, st, now, tenantId)
              cascade == delete_tenant_cascade(users, tenants, documents, social_links, tenantId)
          IN  /\ Apply("delete_tenant", header.credentials.sub, o)
              /\ documents' = IF o.status = 204 THEN cascade.documents ELSE documents
              /\ social_links' = IF o.status = 204 THEN cascade.social_links ELSE social_links
              /\ UNCHANGED <<spent, pending, chats, sessions, messages>>

Next ==
    \/ Tick
    \/ \E header \in Headers : health_check(header)
    \/ \E header \in Headers : get_social_links(header)
    \/ \E email \in Emails, password \in Passwords : Login(email, password)
    \/ \E token \in Presentable \cup {NullToken} : RefreshToken(token)
    \/ \E header \in SentHeaders : \E st \in StatusChoices(header) : Logout(header, st)
    \/ \E header \in SentHeaders : \E st \in StatusChoices(header) : GetUsers(header, st)
    \/ \E header \in SentHeaders : \E st \in StatusChoices(header) : CreateUser(header, st)
    \/ \E header \in SentHeaders : \E st \in StatusChoices(header) : GetUser(header, st)
    \/ \E header \in SentHeaders : \E st \in StatusChoices(header) : UpdateUser(header, st)
    \/ \E header \in SentHeaders : \E st \in StatusChoices(header) : DeleteUser(header, st)
    \/ \E header \in SentHeaders : \E st \in StatusChoices(header) : CreateTenant(header, st)
    \/ \E header \in SentHeaders : \E st \in StatusChoices(header) : DeleteTenant(header, st)

Spec == Init /\ [][Next]_vars

SpecLogin == InitLogin /\ [][Next]_vars

(***************************************************************************)
(* Concurrent creation.  The server processes share one PostgreSQL         *)
(* database and no column of the users table is unique (models/user.py:    *)
(* email is Field(index=True)).  create_user looks the email up in the     *)
(* request's session and create_user_with_password inserts in a session of *)
(* its own; create_tenant_with_admin looks up and inserts in one           *)
(* transaction that sees what others committed before each statement.  A   *)
(* creation is therefore two steps, the lookup and the insert, and the     *)
(* steps of requests served by different processes interleave.             *)
(***************************************************************************)
MaxPending == 2

\* AuthenticationService.create_user_with_password: the message of the
\* ValueError it raises, or "" when the row is committed.
create_user_with_password_error(tstore, password, tenant_id) ==
    IF ~validate_password_strength(password).is_valid
    THEN validate_password_strength(password).message
    ELSE IF tenant_id # NoId /\ tenant_id \notin {x.id : x \in tstore}
    THEN "foreign key violation"
    ELSE ""

\* The rows of the users table after create_user_with_password.
create_user_with_password(store, tstore, email, password, name, role, tenant_id, new_id, salt) ==
    IF create_user_with_password_error(tstore, password, tenant_id) # ""
    THEN store
    ELSE store \cup {User(new_id, email, name, role, tenant_id, hash_password(password, salt))}

\* A request that has passed its lookups and not yet inserted.
FreeRequestIds == (1..MaxPending) \ {r.request : r \in pending}

\* create_user up to and including the email lookup (users.py 87-103).
\* A request the guard or the lookup rejects is answered at once.
BeginCreateUser(header, st) ==
    LET cu == require_tenant_admin(users, header, st, now)
    IN  \E email \in Pick(cu.ok, Emails, AliceEmail), role \in Pick(cu.ok, {USER, TENANT_ADMIN}, USER),
           tenant_id \in Pick(cu.ok, {NoId, 1}, NoId) :
          /\ IF cu.ok /\ UsersByEmail(users, email) = {}
             THEN /\ FreeRequestIds # {}
                  /\ pending' = pending \cup
                       {[request |-> CHOOSE r \in FreeRequestIds : TRUE, op |-> "create_user",
                         caller |-> cu.user.id, email |-> email, password |-> PwStrong,
                         name |-> "Alice", role |-> role,
                         tenant_id |-> create_user_tenant_id(cu.user, tenant_id), slug |-> ""]}
             ELSE UNCHANGED pending
          /\ UNCHANGED <<users, tenants, nextUserId, nextTenantId, clock, issued, spent, writes,
                         lastWrite, password_hash_column, call, tables>>

\* The rest of create_user: create_user_with_password (users.py 105-127).
FinishCreateUser(req) ==
    LET error == create_user_with_password_error(tenants, req.password, req.tenant_id)
        store == create_user_with_password(users, tenants, req.email, req.password, req.name,
                                           req.role, req.tenant_id, nextUserId, "salt1")
        user == CHOOSE u \in (store \ users) \cup {NullUser} : (store # users => u # NullUser)
    IN  /\ req.op = "create_user"
        /\ Apply("create_user", req.caller,
                 IF error # ""
                 THEN Reply(users, tenants, 500, create_user_error(error), TRUE, NullUser, {})
                 ELSE Outcome(201, "User created successfully", TRUE, NullUser, {}, NoTokens,
                              store, tenants, user, NoTenant))
        /\ pending' = pending \ {req}
        /\ UNCHANGED <<spent, tables>>

\* create_tenant_with_admin up to and including the email lookup of
\* UserService.create_user (tenant.py 35-38, user.py 41-44).
BeginCreateTenant(header, st) ==
    LET cu == require_superadmin(users, header, st, now)
    IN  \E slug \in Pick(cu.ok, Slugs, "acme"), admin_email \in Pick(cu.ok, Emails, AliceEmail) :
          /\ IF /\ cu.ok
                /\ ~(\E x \in tenants : x.slug = slug)
                /\ UsersByEmail(users, admin_email) = {}
             THEN /\ FreeRequestIds # {}
                  /\ pending' = pending \cup
                       {[request |-> CHOOSE r \in FreeRequestIds : TRUE, op |-> "create_tenant",
                         caller |-> cu.user.id, email |-> admin_email, password |-> PwStrong,
                         name |-> "Alice", role |-> TENANT_ADMIN, tenant_id |-> NoId,
                         slug |-> slug]}
             ELSE UNCHANGED pending
          /\ UNCHANGED <<users, tenants, nextUserId, nextTenantId, clock, issued, spent, writes,
                         lastWrite, password_hash_column, call, tables>>

\* The rest of create_tenant_with_admin: the strength check, the inserts
\* and the commit (user.py 46-66, tenant_creation.py 52-59).
FinishCreateTenant(req) ==
    LET strength == validate_password_strength(req.password)
        tenant == Tenant(nextTenantId, "Acme", req.slug)
        admin == User(nextUserId, req.email, req.name, TENANT_ADMIN, tenant.id,
                      hash_password(req.password, "salt1"))
    IN  /\ req.op = "create_tenant"
        /\ Apply("create_tenant", req.caller,
                 IF ~strength.is_valid
                 THEN Reply(users, tenants, 400, strength.message, TRUE, NullUser, {})
                 ELSE Outcome(201, "Tenant created successfully", TRUE, NullUser, {}, NoTokens,
                              users \cup {admin}, tenants \cup {tenant}, admin, tenant))
        /\ pending' = pending \ {req}
        /\ UNCHANGED <<spent, tables>>

NextCreate ==
    \/ \E email \in Emails, password \in Passwords : Login(email, password)
    \/ \E header \in SentHeaders : \E st \in StatusChoices(header) : BeginCreateUser(header, st)
    \/ \E req \in pending : FinishCreateUser(req)
    \/ \E header \in SentHeaders : \E st \in StatusChoices(header) : BeginCreateTenant(header, st)
    \/ \E req \in pending : FinishCreateTenant(req)

\* The database as create_superadmin.py leaves it: the superadmin row and
\* no tenant.
InitCreate ==
    /\ password_hash_column \in BOOLEAN
    /\ users = {User(1, AdminEmail, "System Administrator", SUPERADMIN, NoId,
                     hash_password(PwAdmin, "salt1"))}
    /\ tenants = {}
    /\ nextUserId = 2
    /\ nextTenantId = 1
    /\ clock = 0
    /\ issued = {}
    /\ spent = {}
    /\ writes = 0
    /\ lastWrite = Note("start", 200, NoId)
    /\ pending = {}
    /\ call = NoCall
    /\ documents = {}
    /\ social_links = {}
    /\ chats = {}
    /\ sessions = {}
    /\ messages = {}

SpecCreate == InitCreate /\ [][NextCreate]_vars

(***************************************************************************)
(* Direct calls.  The dependencies and the service functions are also      *)
(* called on their own, with any arguments: a call records the function,   *)
(* its arguments and its result in call and touches nothing else.          *)
(***************************************************************************)
\* The Authorization header of a client presenting the token.
Bearer(token) == [scheme |-> "Bearer", credentials |-> token]

\* The rows a dependency can receive as current_user.
CurrentUsers ==
    {User(id, AliceEmail, "Alice", role, tenant_id, hash_password(PwStrong, "salt1")) :
       id \in UserIds, role \in UserRole, tenant_id \in {NoId} \cup TenantIds}

\* utils/auth.py has_required_role: a role outside the hierarchy has level 0.
has_required_role(user_role, required_role) ==
    role_hierarchy(user_role) >= role_hierarchy(required_role)

\* The role strings has_required_role is called with.
RoleStrings == UserRole \cup {"guest"}

CallsUnchanged ==
    UNCHANGED <<users, tenants, nextUserId, nextTenantId, clock, issued, spent, writes,
                lastWrite, password_hash_column, pending, tables>>

\* role_dependency of require_role(required_role), with the request of a
\* client that holds the access token of current_user.
CallRequireRole(current_user, required_role) ==
    /\ call' = [fn |-> "require_role", current_user |-> current_user,
                required_role |-> required_role,
                result |-> require_role(required_role, {current_user},
                                        Bearer(create_tokens(current_user, now).access_token),
                                        401, now)]
    /\ CallsUnchanged

CallHasRequiredRole(user_role, required_role) ==
    /\ call' = [fn |-> "has_required_role", user_role |-> user_role,
                required_role |-> required_role,
                result |-> has_required_role(user_role, required_role)]
    /\ CallsUnchanged

\* Python's str() of an Optional[UUID]: "None" for None, else the UUID's text.
str(value) == IF value = NoId THEN "None" ELSE ToString(value)

\* TenantAccessError
TenantAccessDetail == "Access to this tenant's data is not allowed"

\* require_tenant_access as it would be if it never compared tenants.
require_tenant_access_open(current_user, tenant_id) == Resolved(current_user)

\* dependencies/auth.py require_tenant_access; tenant_id is the optional
\* string of the request, "" when absent or empty.
require_tenant_access(current_user, tenant_id) ==
    IF current_user.role = SUPERADMIN
    THEN Resolved(current_user)
    ELSE IF tenant_id # "" /\ str(current_user.tenant_id) # tenant_id
    THEN Raised(403, TenantAccessDetail)
    ELSE Resolved(current_user)

\* utils/auth.py can_access_tenant; both ids are Optional, NoId when None.
can_access_tenant(user_tenant_id, target_tenant_id, user_role) ==
    IF user_role = SUPERADMIN
    THEN TRUE
    ELSE str(user_tenant_id) = str(target_tenant_id)

\* The tenant_id strings a request can carry: none, the text of a tenant id
\* (MaxTenants + 1 is the id of no tenant), and text that is no UUID.
TargetTenantIds == {"", "None", "not-a-uuid"} \cup {ToString(i) : i \in 1..(MaxTenants + 1)}

CallRequireTenantAccess(current_user, tenant_id) ==
    /\ call' = [fn |-> "require_tenant_access", current_user |-> current_user,
                tenant_id |-> tenant_id,
                result |-> require_tenant_access(current_user, tenant_id)]
    /\ CallsUnchanged

CallCanAccessTenant(user_tenant_id, target_tenant_id, user_role) ==
    /\ call' = [fn |-> "can_access_tenant", user_tenant_id |-> user_tenant_id,
                target_tenant_id |-> target_tenant_id, user_role |-> user_role,
                result |-> can_access_tenant(user_tenant_id, target_tenant_id, user_role)]
    /\ CallsUnchanged

\* can_access_resource as it would be if administrators of any kind passed.
can_access_resource_admins(user_id, resource_user_id, user_role) ==
    IF user_role \in {SUPERADMIN, TENANT_ADMIN}
    THEN TRUE
    ELSE str(user_id) = str(resource_user_id)

\* utils/auth.py can_access_resource
can_access_resource(user_id, resource_user_id, user_role) ==
    IF user_role = SUPERADMIN
    THEN TRUE
    ELSE str(user_id) = str(resource_user_id)

CallCanAccessResource(user_id, resource_user_id, user_role) ==
    /\ call' = [fn |-> "can_access_resource", user_id |-> user_id,
                resource_user_id |-> resource_user_id, user_role |-> user_role,
                result |-> can_access_resource(user_id, resource_user_id, user_role)]
    /\ CallsUnchanged

\* Passwords of every mix of character classes ("!" is neither letter nor
\* digit) at the lengths around the configured minimum.
ClassMixes ==
    {SelectSeq(<<"X", "a", "1", "!">>, LAMBDA c : c \in S) : S \in SUBSET {"X", "a", "1", "!"}}
      \ {<<>>}

Fill(chars, n) == [i \in 1..n |-> chars[((i - 1) % Len(chars)) + 1]]

StrengthInputs ==
    {Fill(chars, n) : chars \in ClassMixes,
                      n \in {1, password_min_length - 1, password_min_length,
                             password_min_length + 1}}
      \cup {<<>>, PwShort1, PwStrong, PwAdmin, PwWrong}

CallValidatePasswordStrength(password) ==
    /\ call' = [fn |-> "validate_password_strength", password |-> password,
                result |-> validate_password_strength(password)]
    /\ CallsUnchanged

NextCalls ==
    \/ \E current_user \in CurrentUsers, required_role \in UserRole :
         CallRequireRole(current_user, required_role)
    \/ \E user_role \in RoleStrings, required_role \in RoleStrings :
         CallHasRequiredRole(user_role, required_role)
    \/ \E current_user \in CurrentUsers, tenant_id \in TargetTenantIds :
         CallRequireTenantAccess(current_user, tenant_id)
    \/ \E user_tenant_id \in 0..(MaxTenants + 1), target_tenant_id \in 0..(MaxTenants + 1),
          user_role \in UserRole :
         CallCanAccessTenant(user_tenant_id, target_tenant_id, user_role)
    \/ \E user_id \in 0..(MaxUsers + 1), resource_user_id \in 0..(MaxUsers + 1),
          user_role \in RoleStrings :
         CallCanAccessResource(user_id, resource_user_id, user_role)
    \/ \E password \in StrengthInputs : CallValidatePasswordStrength(password)

SpecCalls == Init /\ [][NextCalls]_vars

(***************************************************************************)
(* Direct calls of JWTService.  The time of a call is the reading of       *)
(* datetime.now() inside it, an input of the call: a token is generated at *)
(* an instant of IssueTimes and validated at that instant plus an offset   *)
(* of ValidationOffsets, never earlier than the call before.  A validation *)
(* call keeps the record of the call that generated its token (origin) and *)
(* whether validate_token has refused the token before (expired_before:    *)
(* the server signed the token, so the refusal was for expiry).            *)
(***************************************************************************)
IssueTimes == {0, 5}

ValidationOffsets ==
    {0, AccessTTL - 1, AccessTTL, AccessTTL + 1, RefreshTTL - 1, RefreshTTL, RefreshTTL + 1}

ValidateFns == {"validate_token", "validate_access_token", "validate_refresh_token"}

\* A token the server signed that carries no type claim, and tokens whose
\* exp was set in the past.
UntypedToken == [generate_access_token(1, AdminEmail, SUPERADMIN, NoId, 0) EXCEPT !.type = ""]

ExpiredTokens ==
    {[generate_access_token(1, AdminEmail, SUPERADMIN, NoId, t) EXCEPT !.exp = t - 1] :
       t \in IssueTimes}

ForeignTokens ==
    {ForgedAccess, ForgedRefresh, GarbageToken, NullToken, UntypedToken} \cup ExpiredTokens

\* The validation function named fn, applied.
Validate(fn, token, t) ==
    CASE fn = "validate_access_token" -> validate_access_token(token, t)
      [] fn = "validate_refresh_token" -> validate_refresh_token(token, t)
      [] OTHER -> validate_token(token, t)

CallGenerateAccessToken(user_id, email, role, tenant_id, t) ==
    /\ call' = [fn |-> "generate_access_token", user_id |-> user_id, email |-> email,
                role |-> role, tenant_id |-> tenant_id, t |-> t,
                result |-> generate_access_token(user_id, email, role, tenant_id, t)]
    /\ CallsUnchanged

CallGenerateRefreshToken(user_id, t) ==
    /\ call' = [fn |-> "generate_refresh_token", user_id |-> user_id, email |-> "",
                role |-> "", tenant_id |-> NoId, t |-> t,
                result |-> generate_refresh_token(user_id, t)]
    /\ CallsUnchanged

\* A validation of the token the call before generated or validated.
CallValidate(fn, t) ==
    /\ call.fn \in {"generate_access_token", "generate_refresh_token"} \cup ValidateFns
    /\ t >= call.t
    /\ LET generated == call.fn \in {"generate_access_token", "generate_refresh_token"}
           token == IF generated THEN call.result ELSE call.token
       IN  call' = [fn |-> fn, token |-> token, t |-> t,
                    origin |-> IF generated THEN call ELSE call.origin,
                    expired_before |->
                        /\ ~generated
                        /\ \/ call.expired_before
                           \/ call.fn = "validate_token" /\ call.result = NullToken,
                    result |-> Validate(fn, token, t)]
    /\ CallsUnchanged

\* A validation of a token the server did not generate.
CallValidateForeign(fn, token, t) ==
    /\ call' = [fn |-> fn, token |-> token, t |-> t, origin |-> NoCall,
                expired_before |-> FALSE, result |-> Validate(fn, token, t)]
    /\ CallsUnchanged

NextTokens ==
    \/ \E user_id \in UserIds, email \in {AdminEmail, AliceEmail}, role \in UserRole,
          tenant_id \in {NoId} \cup TenantIds, t \in IssueTimes :
         CallGenerateAccessToken(user_id, email, role, tenant_id, t)
    \/ \E user_id \in UserIds, t \in IssueTimes : CallGenerateRefreshToken(user_id, t)
    \/ \E fn \in ValidateFns, t0 \in IssueTimes, d \in ValidationOffsets : CallValidate(fn, t0 + d)
    \/ \E fn \in ValidateFns, token \in ForeignTokens, t \in IssueTimes :
         CallValidateForeign(fn, token, t)

SpecTokens == Init /\ [][NextTokens]_vars

(***************************************************************************)
(* Direct calls of AuthenticationService: create_user_with_password and    *)
(* authenticate_user, which write the users table.  An authenticate_user   *)
(* call keeps the record of the create_user_with_password call it follows  *)
(* (after) and the rows it found (store).                                  *)
(***************************************************************************)
PwOther == <<"X", "a", "s", "s", "w", "o", "r", "d", "1">>

CallCreateUserWithPassword(email, password, name, role, tenant_id) ==
    LET error == create_user_with_password_error(tenants, password, tenant_id)
        store == create_user_with_password(users, tenants, email, password, name, role,
                                           tenant_id, nextUserId, "salt1")
    IN  /\ error = "" => nextUserId <= MaxUsers
        /\ users' = store
        /\ nextUserId' = IF error = "" THEN nextUserId + 1 ELSE nextUserId
        /\ call' = [fn |-> "create_user_with_password", email |-> email,
                    password |-> password, t |-> now, error |-> error,
                    result |-> IF error = ""
                               THEN User(nextUserId, email, name, role, tenant_id,
                                         hash_password(password, "salt1"))
                               ELSE NullUser]
        /\ UNCHANGED <<tenants, nextTenantId, clock, issued, spent, writes, lastWrite,
                       password_hash_column, pending, tables>>

\* authenticate_user: the row is the first the email lookup returns.
CallAuthenticateUser(email, password) ==
    LET cands == UsersByEmail(users, email)
    IN  \E user \in (IF cands = {} THEN {NullUser} ELSE cands) :
          LET outcome == authenticate_user(user, password)
              logged == [user EXCEPT !.last_login = now]
          IN  /\ users' = IF outcome = "user" THEN (users \ {user}) \cup {logged} ELSE users
              /\ call' = [fn |-> "authenticate_user", email |-> email, password |-> password,
                          t |-> now,
                          after |-> IF call.fn = "create_user_with_password" THEN call
                                    ELSE IF call.fn = "authenticate_user" THEN call.after
                                    ELSE NoCall,
                          store |-> users, outcome |-> outcome,
                          result |-> IF outcome = "user" THEN logged ELSE NullUser]
              /\ UNCHANGED <<tenants, nextUserId, nextTenantId, clock, issued, spent, writes,
                             lastWrite, password_hash_column, pending, tables>>

NextAccounts ==
    \/ \E email \in {AdminEmail, AliceEmail}, password \in {PwStrong, PwOther, PwShort1},
          role \in {USER, TENANT_ADMIN}, tenant_id \in {NoId, 1} :
         CallCreateUserWithPassword(email, password, "Alice", role, tenant_id)
    \/ \E email \in {AdminEmail, AliceEmail}, password \in {PwAdmin, PwStrong, PwOther, PwWrong} :
         CallAuthenticateUser(email, password)

SpecAccounts == Init /\ [][NextAccounts]_vars

(***************************************************************************)
(* Chats, sessions and messages (app/api/v1/chats.py, app/api/v1/chat.py,  *)
(* app/services/chat.py).  A chat belongs to a tenant and carries a system *)
(* prompt; a session belongs to a chat and to the user who opened it; a    *)
(* message belongs to a session.  The answer of a request is recorded in   *)
(* call.                                                                   *)
(***************************************************************************)
MaxSessions == 2
MaxMessages == 4

Chat(id, tenant_id, system_prompt) ==
    [id |-> id, tenant_id |-> tenant_id, system_prompt |-> system_prompt]

Session(id, chat_id, user_id, title) ==
    [id |-> id, chat_id |-> chat_id, user_id |-> user_id, title |-> title]

Message(id, session_id, content, role) ==
    [id |-> id, session_id |-> session_id, content |-> content, role |-> role]

NoSession == Session(NoId, NoId, NoId, <<>>)
NoMessage == Message(NoId, NoId, <<>>, "")
NoChat == Chat(NoId, NoId, "")

\* select(Chat).where(Chat.id == UUID(chat_id)).first()
get_chat_by_id(cstore, chat_id) == {c \in cstore : c.id = chat_id}

\* select(Session).where(Session.id == UUID(session_id)).first()
get_session_by_id(sstore, session_id) == {s \in sstore : s.id = session_id}

\* utils/text.py
clamp_text(text, max_length, suffix) ==
    IF Len(text) <= max_length
    THEN text
    ELSE SubSeq(text, 1, max_length - Len(suffix)) \o suffix

\* ChatService.create_message: the first message of a session, when it is a
\* user's, gives the session its title.
create_message(sstore, mstore, session_id, content, role, new_id) ==
    LET is_first_message == ~(\E m \in mstore : m.session_id = session_id)
        message == Message(new_id, session_id, content, role)
    IN  [sessions |-> IF is_first_message /\ role = "user"
                      THEN {IF s.id = session_id
                            THEN [s EXCEPT !.title = clamp_text(content, 50, <<".", ".", ".">>)]
                            ELSE s : s \in sstore}
                      ELSE sstore,
         messages |-> mstore \cup {message},
         message |-> message]

\* The text of the assistant's answer: the pieces the f-string joins, a
\* text being a sequence of pieces.
static_response_content(content, user_id, tenant_id, sessionId, system_prompt) ==
    <<"Message received, here is all the data I received: message: ">> \o content
    \o <<", user_id: ", str(user_id), ", tenant_id: ", str(tenant_id),
         ", session_id: ", str(sessionId), ", system_prompt: ", system_prompt>>

ChatReply(status, detail, caller, sstore, mstore, data) ==
    [status |-> status, detail |-> detail, caller |-> caller, sessions |-> sstore,
     messages |-> mstore, data |-> data]

\* POST /api/v1/sessions/
create_session(store, sstore, mstore, header, st, t, chat_id, title, new_id) ==
    LET cu == get_current_user(store, header, st, t)
        db_session == Session(new_id, chat_id, cu.user.id, title)
    IN  IF ~cu.ok
        THEN ChatReply(cu.status, cu.detail, NullUser, sstore, mstore, NoSession)
        ELSE ChatReply(201, "Session created successfully", cu.user, sstore \cup {db_session},
                       mstore, db_session)

\* POST /api/v1/sessions/{sessionId}/messages
send_message(store, cstore, sstore, mstore, header, st, t, sessionId, content, role, new_id) ==
    LET cu == get_current_user(store, header, st, t)
        found == get_session_by_id(sstore, sessionId)
        session_obj == CHOOSE s \in found : TRUE
        chat == get_chat_by_id(cstore, session_obj.chat_id)
        system_prompt == IF chat = {} THEN "None" ELSE (CHOOSE c \in chat : TRUE).system_prompt
        stored == create_message(sstore, mstore, sessionId, content, role, new_id)
        answered == create_message(stored.sessions, stored.messages, sessionId,
                                   static_response_content(content, cu.user.id, cu.user.tenant_id,
                                                           sessionId, system_prompt),
                                   "assistant", new_id + 1)
    IN  IF ~cu.ok
        THEN ChatReply(cu.status, cu.detail, NullUser, sstore, mstore, NoMessage)
        ELSE IF found = {}
        THEN ChatReply(404, "Session not found", cu.user, sstore, mstore, NoMessage)
        ELSE IF str(session_obj.user_id) # str(cu.user.id)
        THEN ChatReply(403, "Access denied", cu.user, sstore, mstore, NoMessage)
        ELSE ChatReply(201, "Message sent successfully", cu.user, answered.sessions,
                       answered.messages, answered.message)

\* GET /api/v1/chats/{chatId}
get_chat(store, cstore, sstore, mstore, header, st, t, chatId) ==
    LET cu == get_current_user(store, header, st, t)
        found == get_chat_by_id(cstore, chatId)
        chat == CHOOSE c \in found : TRUE
    IN  IF ~cu.ok
        THEN ChatReply(cu.status, cu.detail, NullUser, sstore, mstore, NoChat)
        ELSE IF found = {}
        THEN ChatReply(404, "Chat not found", cu.user, sstore, mstore, NoChat)
        ELSE IF str(chat.tenant_id) # str(cu.user.tenant_id)
        THEN ChatReply(403, "Access denied", cu.user, sstore, mstore, NoChat)
        ELSE ChatReply(200, "Chat retrieved successfully", cu.user, sstore, mstore, chat)

\* uuid4: an id no row of the table has.
FreshId(rows) == Cardinality(rows) + 1

ChatIds == {c.id : c \in chats} \cup {MaxTenants + 1}
SessionIds == 1..MaxSessions
Contents == {<<"h", "i">>}

ChatUnchanged ==
    UNCHANGED <<users, tenants, nextUserId, nextTenantId, clock, issued, spent, writes,
                lastWrite, password_hash_column, pending, documents, social_links, chats>>

CreateSession(header, st) ==
    \E chat_id \in Pick(get_current_user(users, header, st, now).ok, {c.id : c \in chats}, 1) :
        LET o == create_session(users, sessions, messages, header, st, now, chat_id,
                                <<"N", "e", "w">>, FreshId(sessions))
        IN  /\ Cardinality(o.sessions) <= MaxSessions
            /\ sessions' = o.sessions
            /\ messages' = o.messages
            /\ call' = [fn |-> "create_session", status |-> o.status, caller |-> o.caller,
                        data |-> o.data]
            /\ ChatUnchanged

SendMessage(header, st) ==
    \E sessionId \in Pick(get_current_user(users, header, st, now).ok, SessionIds, 1),
       content \in Contents :
        LET o == send_message(users, chats, sessions, messages, header, st, now, sessionId,
                              content, "user", FreshId(messages))
        IN  /\ Cardinality(o.messages) <= MaxMessages
            /\ sessions' = o.sessions
            /\ messages' = o.messages
            /\ call' = [fn |-> "send_message", status |-> o.status, caller |-> o.caller,
                        data |-> o.data]
            /\ ChatUnchanged

GetChat(header, st) ==
    \E chatId \in Pick(get_current_user(users, header, st, now).ok, ChatIds, 1) :
        LET o == get_chat(users, chats, sessions, messages, header, st, now, chatId)
        IN  /\ call' = [fn |-> "get_chat", status |-> o.status, caller |-> o.caller,
                        data |-> o.data]
            /\ UNCHANGED <<sessions, messages>>
            /\ ChatUnchanged

NextChat ==
    \/ \E email \in Emails, password \in Passwords : Login(email, password)
    \/ \E header \in SentHeaders : \E st \in StatusChoices(header) : CreateSession(header, st)
    \/ \E header \in SentHeaders : \E st \in StatusChoices(header) : SendMessage(header, st)
    \/ \E header \in SentHeaders : \E st \in StatusChoices(header) : GetChat(header, st)

\* Two tenants, each with one chat its admin created; the seeded users and
\* a user of the second tenant.
InitChat ==
    /\ password_hash_column = TRUE
    /\ users = SeedUsers(hash_password(PwAdmin, "salt1"), hash_password(PwTenant, "salt1"))
               \cup {User(3, AliceEmail, "Alice", USER, 2, hash_password(PwStrong, "salt1"))}
    /\ tenants = SeedTenants \cup {Tenant(2, "Acme", "acme")}
    /\ nextUserId = 4
    /\ nextTenantId = 3
    /\ clock = 0
    /\ issued = {}
    /\ spent = {}
    /\ writes = 0
    /\ lastWrite = Note("start", 200, NoId)
    /\ pending = {}
    /\ call = NoCall
    /\ documents = {}
    /\ social_links = {}
    /\ chats = {Chat(1, 1, "prompt of tenant 1"), Chat(2, 2, "prompt of tenant 2")}
    /\ sessions = {}
    /\ messages = {}

SpecChat == InitChat /\ [][NextChat]_vars

(***************************************************************************)
(* Tenant deletion called on a database with users, documents and social   *)
(* links in it.  A store of this specification has some of the tenants,    *)
(* and for each of them possibly a user, a document and a social link.     *)
(***************************************************************************)
TenantUser(t) == User(t + 1, AliceEmail, "Alice", USER, t, hash_password(PwStrong, "salt1"))

CascadeUnchanged ==
    UNCHANGED <<nextUserId, nextTenantId, clock, issued, spent, writes, lastWrite,
                password_hash_column, pending, chats, sessions, messages>>

\* tenant_service.delete_tenant_cascade(tenant_id)
CallDeleteTenantCascade(tenant_id) ==
    LET cascade == delete_tenant_cascade(users, tenants, documents, social_links, tenant_id)
    IN  /\ users' = cascade.users
        /\ tenants' = cascade.tenants
        /\ documents' = cascade.documents
        /\ social_links' = cascade.social_links
        /\ call' = [fn |-> "delete_tenant_cascade", tenant_id |-> tenant_id,
                    users |-> users, tenants |-> tenants, documents |-> documents,
                    social_links |-> social_links, result |-> cascade.deleted]
        /\ CascadeUnchanged

NextCascade == \E tenant_id \in 1..(MaxTenants + 1) : CallDeleteTenantCascade(tenant_id)

InitCascade ==
    /\ password_hash_column = TRUE
    /\ \E T \in SUBSET TenantIds :
         /\ tenants = {Tenant(t, "Acme", "acme") : t \in T}
         /\ \E U \in SUBSET T :
              users = {User(1, AdminEmail, "System Administrator", SUPERADMIN, NoId,
                            hash_password(PwAdmin, "salt1"))}
                      \cup {TenantUser(t) : t \in U}
         /\ \E D \in SUBSET T : documents = {Document(t, t, t + 1) : t \in D}
         /\ \E L \in SUBSET T : social_links = {SocialLink(t, t) : t \in L}
    /\ nextUserId = MaxTenants + 2
    /\ nextTenantId = MaxTenants + 1
    /\ clock = 0
    /\ issued = {}
    /\ spent = {}
    /\ writes = 0
    /\ lastWrite = Note("start", 200, NoId)
    /\ pending = {}
    /\ call = NoCall
    /\ chats = {}
    /\ sessions = {}
    /\ messages = {}

SpecCascade == InitCascade /\ [][NextCascade]_vars

(***************************************************************************)
(* Properties.  A property about requests quantifies over every request a  *)
(* client can send in the current state and reads the handler's outcome.   *)
(***************************************************************************)
\* The token is correctly signed by the server and not expired at t.
Live(token, t) == token.fmt = "jwt" /\ token.key = jwt_secret_key /\ token.exp > t

Exists(user_id) == \E u \in users : u.id = user_id

Stored(user_id) == CHOOSE u \in users : u.id = user_id

RoleInputs == UserRole \cup {""}

\* The outcomes of the list, get, update and delete requests on
\* /api/v1/users that carry the header.
UsersEndpointOutcomes(header, st) ==
    {get_users(users, tenants, header, st, now)}
    \cup {get_user(users, tenants, header, st, now, id) : id \in UserIds}
    \cup {update_user(users, tenants, header, st, now, id, name, role) :
            id \in UserIds, name \in UpdateNames, role \in RoleInputs}
    \cup {delete_user(users, tenants, header, st, now, id) : id \in UserIds}

\* The outcomes of the requests on every endpoint that depends on
\* get_current_user, directly or through require_role.
GuardedOutcomes(header, st) ==
    UsersEndpointOutcomes(header, st)
    \cup {logout(users, tenants, header, st, now)}
    \cup {create_user(users, tenants, header, st, now, email, PwStrong, "Alice", role, tid,
                      nextUserId, "salt1") :
            email \in Emails, role \in UserRole, tid \in {NoId} \cup TenantIds}
    \cup {create_tenant(users, tenants, header, st, now, "Acme", slug, email, "Alice", PwStrong,
                        nextTenantId, nextUserId, "salt1") :
            slug \in Slugs, email \in Emails}
    \cup {delete_tenant(users, tenants, header, st, now, id) : id \in TenantIds}

\* The rows an outcome returned, modified or deleted.
Rows(o) == o.touched \cup (users \ o.users) \cup (o.users \ users)

(***************************************************************************)
(* C1.  Tenant scope invariant: in every reachable state of the user       *)
(* store, every user with role superadmin has a null tenant id and every   *)
(* user with role tenant_admin or user has a non-null tenant id.           *)
(***************************************************************************)
TenantScopeInvariant ==
    \A u \in users :
        /\ u.role = SUPERADMIN => u.tenant_id = NoId
        /\ u.role \in {TENANT_ADMIN, USER} => u.tenant_id # NoId

(***************************************************************************)
(* C2.  Cross-tenant isolation on the users endpoints: for every list,     *)
(* get, update or delete request whose caller is not a superadmin, every   *)
(* row returned, modified or deleted has the caller's tenant id, and is    *)
(* the caller's own row when the caller has role user.                     *)
(***************************************************************************)
Isolated(o) ==
    (o.ran /\ o.caller.role # SUPERADMIN) =>
        \A row \in Rows(o) :
            /\ row.tenant_id = o.caller.tenant_id
            /\ o.caller.role = USER => row.id = o.caller.id

\* A request has a caller when get_current_user resolves one; its header
\* then carries bearer credentials, which HTTPBearer passes on.
CrossTenantIsolation ==
    \A header \in Headers :
        get_current_user(users, header, 401, now).ok =>
            /\ Isolated(get_users(users, tenants, header, 401, now))
            /\ \A id \in UserIds :
                 /\ Isolated(get_user(users, tenants, header, 401, now, id))
                 /\ Isolated(delete_user(users, tenants, header, 401, now, id))
                 /\ \A name \in UpdateNames : \A role \in RoleInputs :
                      Isolated(update_user(users, tenants, header, 401, now, id, name, role))

\* A tenant admin can delete a row of its own tenant, and is refused a row
\* of another tenant.
CrossTenantIsolationWitness ==
    \E header \in Headers :
        /\ \E id \in UserIds :
             LET o == delete_user(users, tenants, header, 401, now, id)
             IN  o.ran /\ o.caller.role = TENANT_ADMIN /\ o.status = 204 /\ Rows(o) # {}
        /\ \E id \in UserIds :
             LET o == get_user(users, tenants, header, 401, now, id)
             IN  /\ o.ran /\ o.caller.role = TENANT_ADMIN /\ o.status = 403
                 /\ Exists(id) /\ Stored(id).tenant_id # o.caller.tenant_id

(***************************************************************************)
(* C3.  Token type separation: in every reachable state, so at every       *)
(* instant from its issuance on, a refresh token the service issued is     *)
(* accepted neither by validate_access_token nor by a route guard nor by   *)
(* the identity middleware, and an access token the service issued is      *)
(* accepted neither by validate_refresh_token nor by refresh.              *)
(***************************************************************************)
TokenTypeSeparation ==
    \A token \in issued :
        /\ token.type = "refresh" =>
            /\ validate_access_token(token, now) = NullToken
            /\ \A scheme \in {"Bearer", "bearer"} :
                 ~get_current_user(users, [scheme |-> scheme, credentials |-> token], 401, now).ok
            /\ \A path \in Paths : ~dispatch(path, Bearer(token), now).identity.attached
        /\ token.type = "access" =>
            /\ validate_refresh_token(token, now) = NullToken
            /\ refresh_access_token(users, token, now) = NoTokens
            /\ refresh_token(users, tenants, token, now).status = 401

\* A live refresh token and a live access token of a stored user are in
\* circulation, each accepted where its own type is required.
TokenTypeSeparationWitness ==
    /\ \E token \in issued :
         /\ token.type = "refresh" /\ Live(token, now) /\ Exists(token.sub)
         /\ refresh_token(users, tenants, token, now).status = 200
    /\ \E token \in issued :
         /\ token.type = "access" /\ Live(token, now) /\ Exists(token.sub)
         /\ get_current_user(users, Bearer(token), 401, now).ok

(***************************************************************************)
(* C4.  Fail-closed guard: every endpoint that depends on get_current_user *)
(* answers 401 and runs none of its handler logic unless the request       *)
(* carries a correctly signed, unexpired token of type access whose        *)
(* subject is a user currently in the store.                               *)
(***************************************************************************)
CarriesAccessTokenOfStoredUser(header) ==
    /\ header.scheme \in {"Bearer", "bearer"}
    /\ Live(header.credentials, now)
    /\ header.credentials.type = "access"
    /\ Exists(header.credentials.sub)

FailClosedGuard401 ==
    \A header \in Headers : \A st \in StatusChoices(header) :
        ~CarriesAccessTokenOfStoredUser(header) =>
            \A o \in GuardedOutcomes(header, st) :
                /\ o.status = 401
                /\ ~o.ran
                /\ o.users = users /\ o.tenants = tenants /\ o.tokens = NoTokens

(***************************************************************************)
(* C5.  The identity middleware never rejects: it calls the next handler   *)
(* exactly once for every request, and it attaches an identity (user id,   *)
(* email, role and tenant id of the token's claims) exactly when the path  *)
(* is not on the bypass list, the header starts with "Bearer " and the     *)
(* token is a live access token; otherwise no identity is attached.        *)
(***************************************************************************)
BypassedPaths ==
    {PathRoot, PathHealth, <<"docs">>, <<"redoc">>, <<"openapi.json">>,
     PathLogin, PathRefresh, PathLogout}

MiddlewareFailOpen ==
    \A path \in Paths \cup BypassedPaths : \A header \in Headers :
        LET d == dispatch(path, header, now)
            token == header.credentials
            accepted == /\ path \notin BypassedPaths
                        /\ header.scheme = "Bearer"
                        /\ Live(token, now)
                        /\ token.type = "access"
        IN  /\ d.forwards = 1
            /\ d.identity.attached <=> accepted
            /\ accepted =>
                 d.identity = [attached |-> TRUE, user_id |-> token.sub,
                               user_email |-> token.email, user_role |-> token.role,
                               tenant_id |-> token.tenant_id]
            /\ ~accepted => d.identity = NoIdentity

\* With an expired access token in circulation next to a live one, the
\* middleware attaches the identity of the live one on a path that is not
\* bypassed, and none on a bypassed path or for the expired one.
MiddlewareFailOpenWitness ==
    \E a \in issued : \E b \in issued :
        /\ a.type = "access" /\ Live(a, now)
        /\ b.type = "access" /\ ~Live(b, now)
        /\ dispatch(PathUsers, Bearer(a), now).identity.attached
        /\ ~dispatch(PathLogout, Bearer(a), now).identity.attached
        /\ ~dispatch(PathUsers, Bearer(b), now).identity.attached

RefreshAfterDeletionFails ==
    [][\A token \in issued :
         (token.type = "refresh" /\ ~Exists(token.sub)) =>
            /\ refresh_token(users, tenants, token, now).status = 401
            /\ refresh_token(users, tenants, token, now).tokens = NoTokens
            /\ UsersById(users', token.sub) = {}
            /\ refresh_token(users', tenants', token, Instant(clock')).status = 401
            /\ refresh_token(users', tenants', token, Instant(clock')).tokens = NoTokens]_vars

\* A deletion has just removed a user whose correctly signed, unexpired
\* refresh token is in circulation.
RefreshAfterDeletionWitness ==
    /\ lastWrite.op \in {"delete_user", "delete_tenant"}
    /\ \E token \in issued :
         token.type = "refresh" /\ Live(token, now) /\ ~Exists(token.sub)

(***************************************************************************)
(* C8.  Refresh uses current state: for a live refresh token of a stored   *)
(* user, refresh succeeds and the new access token carries the role and    *)
(* tenant id the user has in storage at the time of the call.              *)
(***************************************************************************)
RefreshUsesCurrentState ==
    \A token \in issued :
        (token.type = "refresh" /\ Live(token, now) /\ Exists(token.sub)) =>
            LET o == refresh_token(users, tenants, token, now)
                u == Stored(token.sub)
            IN  /\ o.status = 200
                /\ validate_access_token(o.tokens.access_token, now) # NullToken
                /\ o.tokens.access_token.sub = u.id
                /\ o.tokens.access_token.role = u.role
                /\ o.tokens.access_token.tenant_id = u.tenant_id

\* A refresh has just succeeded for a user whose role was changed after
\* the login: the access token of the login carries the old role, the new
\* access token the role in storage.
RefreshUsesCurrentStateWitness ==
    /\ lastWrite.op = "refresh" /\ lastWrite.status = 200
    /\ \E old \in issued : \E new \in issued :
         /\ old.type = "access" /\ new.type = "access"
         /\ old.sub = lastWrite.subject /\ new.sub = lastWrite.subject
         /\ Exists(new.sub)
         /\ old.role # Stored(new.sub).role
         /\ new.role = Stored(new.sub).role

UniformAuthenticationFailure ==
    \A user \in users : \A password \in Passwords :
        LET o == login(users, tenants, user, password, now)
            unknown == login(users, tenants, NullUser, password, now)
        IN  /\ unknown.status = 401
            /\ o.status # 200 =>
                 /\ o.status = unknown.status
                 /\ o.detail = unknown.detail
                 /\ o.users = users /\ o.tokens = NoTokens

(***************************************************************************)
(* C11  Email uniqueness: after any interleaving of concurrent creation    *)
(* requests (create_user and create_tenant_with_admin) no two rows of the  *)
(* users table have the same email.                                        *)
(***************************************************************************)
EmailUniqueness ==
    \A u \in users : \A v \in users : u.email = v.email => u.id = v.id

(***************************************************************************)
(* C12  Role hierarchy: with user < tenant_admin < superadmin,             *)
(* require_role(required) admits the caller exactly when the caller's role *)
(* is at least the required one, and otherwise fails with 403 and a detail *)
(* naming the required role; has_required_role decides the same.           *)
(***************************************************************************)
RoleOrder == <<USER, TENANT_ADMIN, SUPERADMIN>>

Rank(role) == CHOOSE i \in 1..3 : RoleOrder[i] = role

RoleHierarchy ==
    /\ call.fn = "require_role" =>
         IF Rank(call.current_user.role) >= Rank(call.required_role)
         THEN call.result.ok /\ call.result.user = call.current_user
         ELSE /\ ~call.result.ok
              /\ call.result.status = 403
              /\ call.result.detail =
                   (CASE call.required_role = TENANT_ADMIN -> "Requires tenant_admin role or higher"
                      [] call.required_role = SUPERADMIN -> "Requires superadmin role or higher"
                      [] OTHER -> "Requires user role or higher")
    /\ (call.fn = "has_required_role" /\ {call.user_role, call.required_role} \subseteq UserRole) =>
         (call.result <=> Rank(call.user_role) >= Rank(call.required_role))

RoleHierarchyWitness ==
    /\ call.fn = "require_role"
    /\ call.current_user.role = USER
    /\ call.required_role = TENANT_ADMIN
    /\ ~call.result.ok

(***************************************************************************)
(* C13  Tenant isolation decision: require_tenant_access (and              *)
(* can_access_tenant) refuses a tenant_admin of tenant A every target      *)
(* tenant B # A, and admits a superadmin for every target, the id of no    *)
(* tenant included.                                                        *)
(***************************************************************************)
TenantIsolationDecision ==
    /\ call.fn = "require_tenant_access" =>
         /\ ( /\ call.current_user.role = TENANT_ADMIN
              /\ \E B \in 1..(MaxTenants + 1) :
                   call.tenant_id = ToString(B) /\ B # call.current_user.tenant_id )
            => (~call.result.ok /\ call.result.status = 403)
         /\ call.current_user.role = SUPERADMIN
            => (call.result.ok /\ call.result.user = call.current_user)
    /\ call.fn = "can_access_tenant" =>
         /\ ( /\ call.user_role = TENANT_ADMIN
              /\ call.target_tenant_id # NoId
              /\ call.target_tenant_id # call.user_tenant_id )
            => ~call.result
         /\ call.user_role = SUPERADMIN => call.result

TenantIsolationDecisionWitness ==
    /\ call.fn = "require_tenant_access"
    /\ call.current_user.role = TENANT_ADMIN
    /\ call.current_user.tenant_id = 1
    /\ call.tenant_id = ToString(2)
    /\ ~call.result.ok

(***************************************************************************)
(* C14  A caller that is not superadmin passes require_tenant_access only  *)
(* if its tenant id equals the target tenant id, and otherwise gets        *)
(* TenantAccessError (403), for every target, absent or empty included.    *)
(***************************************************************************)
SameTenant(tenant_id, target) ==
    \/ tenant_id = NoId /\ target = ""
    \/ tenant_id # NoId /\ target = ToString(tenant_id)

TenantAccessRequiresMatch ==
    (call.fn = "require_tenant_access" /\ call.current_user.role # SUPERADMIN) =>
        IF SameTenant(call.current_user.tenant_id, call.tenant_id)
        THEN call.result.ok
        ELSE /\ ~call.result.ok
             /\ call.result.status = 403
             /\ call.result.detail = "Access to this tenant's data is not allowed"

(***************************************************************************)
(* C15  Resource ownership decision: can_access_resource admits a          *)
(* superadmin for every owner, and a tenant_admin or user exactly when its *)
(* own id is the owner's id.                                               *)
(***************************************************************************)
ResourceOwnershipDecision ==
    call.fn = "can_access_resource" =>
        /\ call.user_role = SUPERADMIN => call.result
        /\ call.user_role \in {TENANT_ADMIN, USER} =>
             (call.result <=> call.user_id = call.resource_user_id)

ResourceOwnershipDecisionWitness ==
    /\ call.fn = "can_access_resource"
    /\ call.user_role = TENANT_ADMIN
    /\ call.user_id = 1
    /\ call.resource_user_id = 2
    /\ ~call.result

(***************************************************************************)
(* C16  Access token round trip: validating an access token as an access   *)
(* token at any time before its expiry returns the subject, email, role    *)
(* and tenant id it was generated with (a null tenant id stays null), and  *)
(* validating it as a refresh token returns None.                          *)
(***************************************************************************)
AccessTokenRoundTrip ==
    (call.fn \in ValidateFns /\ call.origin.fn = "generate_access_token") =>
        /\ (call.fn = "validate_access_token" /\ call.t < call.origin.t + AccessTTL) =>
             /\ call.result # NullToken
             /\ call.result.sub = call.origin.user_id
             /\ call.result.email = call.origin.email
             /\ call.result.role = call.origin.role
             /\ call.result.tenant_id = call.origin.tenant_id
        /\ call.fn = "validate_refresh_token" => call.result = NullToken

AccessTokenRoundTripWitness ==
    /\ call.fn = "validate_access_token"
    /\ call.origin.fn = "generate_access_token"
    /\ call.origin.role = TENANT_ADMIN
    /\ call.origin.tenant_id = 1
    /\ call.t = call.origin.t + AccessTTL - 1
    /\ call.result.role = TENANT_ADMIN
    /\ call.result.tenant_id = 1

(***************************************************************************)
(* C17  Expiry: a token whose exp lies a second or more in the past fails  *)
(* validation; a token generated at t with lifetime ttl validates at every *)
(* time up to t + ttl - 1 and fails at every time from t + ttl + 1 on; a   *)
(* token refused for expiry is refused at every later validation.          *)
(***************************************************************************)
Lifetime(origin) == IF origin.fn = "generate_access_token" THEN AccessTTL ELSE RefreshTTL

\* The validation function checks the type the token was generated with.
Fits(fn, origin) ==
    \/ fn = "validate_token"
    \/ fn = "validate_access_token" /\ origin.fn = "generate_access_token"
    \/ fn = "validate_refresh_token" /\ origin.fn = "generate_refresh_token"

TokenExpiry ==
    call.fn \in ValidateFns =>
        /\ call.token.exp <= call.t - 1 => call.result = NullToken
        /\ (call.origin # NoCall /\ Fits(call.fn, call.origin)) =>
             /\ call.t <= call.origin.t + Lifetime(call.origin) - 1 => call.result = call.token
             /\ call.t >= call.origin.t + Lifetime(call.origin) + 1 => call.result = NullToken
        /\ call.expired_before => call.result = NullToken

TokenExpiryWitness ==
    /\ call.fn = "validate_token"
    /\ call.origin.fn = "generate_refresh_token"
    /\ call.t = call.origin.t + RefreshTTL + 1
    /\ call.expired_before
    /\ call.result = NullToken

(***************************************************************************)
(* C18  Token validation reports every failure as None: for an expired,    *)
(* wrongly signed or malformed token, a token of the wrong type or one     *)
(* without a type claim, validate_token, validate_access_token and         *)
(* validate_refresh_token return None, and the call changes no state.      *)
(***************************************************************************)
Refusable(fn, token, t) ==
    \/ token.fmt # "jwt"
    \/ token.key # jwt_secret_key
    \/ token.exp <= t
    \/ fn = "validate_access_token" /\ token.type # "access"
    \/ fn = "validate_refresh_token" /\ token.type # "refresh"

TokenFailureIsNone ==
    [][call'.fn \in ValidateFns =>
         /\ Refusable(call'.fn, call'.token, call'.t) => call'.result = NullToken
         /\ ~Refusable(call'.fn, call'.token, call'.t) => call'.result = call'.token
         /\ UNCHANGED <<users, tenants, nextUserId, nextTenantId, clock, issued, spent,
                        writes, lastWrite, password_hash_column, pending, tables>>]_vars

TokenFailureIsNoneWitness ==
    /\ call.fn = "validate_refresh_token"
    /\ call.token = UntypedToken
    /\ call.result = NullToken

(***************************************************************************)
(* C19  Create-then-authenticate: after create_user_with_password(e, p)    *)
(* has succeeded, authenticate_user(e, p) returns the user with the id of  *)
(* the created row and sets its last_login, and authenticate_user(e, p2)   *)
(* with p2 # p returns None and changes no row.  (Stated for an email that *)
(* one row carries.)                                                       *)
(***************************************************************************)
CreateThenAuthenticate ==
    ( /\ call.fn = "authenticate_user"
      /\ call.after # NoCall
      /\ call.after.error = ""
      /\ call.email = call.after.email
      /\ Cardinality(UsersByEmail(call.store, call.email)) = 1 )
    => IF call.password = call.after.password
       THEN /\ call.outcome = "user"
            /\ call.result.id = call.after.result.id
            /\ \E u \in users : u.id = call.after.result.id /\ u.last_login = call.t
       ELSE /\ call.outcome = "none"
            /\ users = call.store

(***************************************************************************)
(* C20  Password strength: validate_password_strength accepts a password   *)
(* exactly when it has at least password_min_length (8) characters and an  *)
(* uppercase letter, a lowercase letter and a digit; a refusal carries the *)
(* message of the first rule violated in the order length, uppercase,      *)
(* lowercase, digit, and a repeated call returns the same answer.          *)
(***************************************************************************)
HasUpper(p) == \E i \in 1..Len(p) : p[i] \in {"P", "X"}
HasLower(p) == \E i \in 1..Len(p) : p[i] \in {"a", "d", "m", "i", "n", "t", "e", "s", "w", "o", "r", "h", "g"}
HasDigit(p) == \E i \in 1..Len(p) : p[i] \in {"0", "1", "2", "3"}

FirstViolation(p) ==
    IF Len(p) < 8 THEN "Password must be at least 8 characters long"
    ELSE IF ~HasUpper(p) THEN "Password must contain at least one uppercase letter"
    ELSE IF ~HasLower(p) THEN "Password must contain at least one lowercase letter"
    ELSE IF ~HasDigit(p) THEN "Password must contain at least one digit"
    ELSE ""

PasswordStrength ==
    [][call'.fn = "validate_password_strength" =>
         /\ call'.result.is_valid <=>
              (Len(call'.password) >= 8 /\ HasUpper(call'.password)
               /\ HasLower(call'.password) /\ HasDigit(call'.password))
         /\ ~call'.result.is_valid => call'.result.message = FirstViolation(call'.password)
         /\ (call.fn = "validate_password_strength" /\ call.password = call'.password)
              => call'.result = call.result]_vars

PasswordStrengthWitness ==
    /\ call.fn = "validate_password_strength"
    /\ call.password = <<"X", "a", "X", "a", "X", "a", "X", "a">>
    /\ ~call.result.is_valid
    /\ call.result.message = "Password must contain at least one digit"

(***************************************************************************)
(* C21  The password "short1" (six characters, a digit, lowercase letters, *)
(* no uppercase letter) fails strength validation, and the message is that *)
(* of the length rule, the first rule it violates.                         *)
(***************************************************************************)
Short1FailsOnLength ==
    (call.fn = "validate_password_strength" /\ call.password = <<"s", "h", "o", "r", "t", "1">>) =>
        /\ ~call.result.is_valid
        /\ call.result.message = "Password must be at least 8 characters long"

\* C21 as stated: the message identifies the missing uppercase rule.
Short1FailsOnUppercase ==
    (call.fn = "validate_password_strength" /\ call.password = <<"s", "h", "o", "r", "t", "1">>) =>
        /\ ~call.result.is_valid
        /\ call.result.message = "Password must contain at least one uppercase letter"

Short1Witness ==
    /\ call.fn = "validate_password_strength"
    /\ call.password = PwShort1
    /\ Len(call.password) = 6
    /\ ~call.result.is_valid

(***************************************************************************)
(* C22  Weak password on user creation: a create_user request of an        *)
(* admitted caller with a new email and a password that fails strength     *)
(* validation is answered 400 with the message of the violated rule, and   *)
(* no row is created.                                                      *)
(***************************************************************************)
WeakPasswordRejected400 ==
    \A header \in SentHeaders :
        LET o == create_user(users, tenants, header, 401, now, AliceEmail, PwShort1, "Alice",
                             USER, NoId, nextUserId, "salt1")
        IN  (o.ran /\ UsersByEmail(users, AliceEmail) = {}) =>
                /\ o.status = 400
                /\ o.detail = validate_password_strength(PwShort1).message
                /\ o.users = users

(***************************************************************************)
(* C23  Duplicate email on user creation: a create_user request of an      *)
(* admitted caller whose email is that of a stored user is answered 409    *)
(* and leaves the store as it is, whatever its password, role and tenant.  *)
(***************************************************************************)
DuplicateEmailRejected409 ==
    \A header \in SentHeaders :
        require_tenant_admin(users, header, 401, now).ok =>
            \A email \in {e \in Emails : UsersByEmail(users, e) # {}} :
                \A password \in {PwStrong, PwShort1}, role \in UserRole,
                   tenant_id \in {NoId} \cup TenantIds :
                    LET o == create_user(users, tenants, header, 401, now, email, password,
                                         "Alice", role, tenant_id, nextUserId, "salt1")
                    IN  /\ o.status = 409
                        /\ o.detail = "User with this email already exists"
                        /\ o.users = users
                        /\ o.tenants = tenants
                        /\ o.new_user = NullUser

DuplicateEmailRejected409Witness ==
    \E header \in SentHeaders :
        /\ require_tenant_admin(users, header, 401, now).ok
        /\ create_user(users, tenants, header, 401, now, AdminEmail, PwShort1, "Alice",
                       SUPERADMIN, 1, nextUserId, "salt1").status = 409

(***************************************************************************)
(* C24  Tenant creation is all-or-nothing: when the slug is taken, the     *)
(* admin's email is taken or the admin's password is weak,                 *)
(* create_tenant_with_admin leaves neither a tenant nor an admin behind;   *)
(* otherwise it leaves both, the admin a tenant_admin of the new tenant.   *)
(***************************************************************************)
TenantWithAdminAllOrNothing ==
    \A slug \in Slugs, admin_email \in Emails, admin_password \in {PwStrong, PwShort1} :
        LET made == create_tenant_with_admin(users, tenants, "Acme", slug, admin_email, "Alice",
                                             admin_password, nextTenantId, nextUserId, "salt1")
            refused == \/ \E x \in tenants : x.slug = slug
                       \/ \E u \in users : u.email = admin_email
                       \/ ~validate_password_strength(admin_password).is_valid
        IN  IF refused
            THEN /\ made.error # ""
                 /\ made.tenants = tenants
                 /\ made.users = users
            ELSE /\ made.error = ""
                 /\ made.tenant \notin tenants
                 /\ made.tenant.slug = slug
                 /\ made.tenants = tenants \cup {made.tenant}
                 /\ made.admin_user \notin users
                 /\ made.admin_user.email = admin_email
                 /\ made.admin_user.role = TENANT_ADMIN
                 /\ made.admin_user.tenant_id = made.tenant.id
                 /\ made.users = users \cup {made.admin_user}

\* A tenant "acme" and its admin have been created, and a free slug with a
\* weak admin password would now be refused after the tenant was flushed.
TenantWithAdminAllOrNothingWitness ==
    /\ lastWrite.op = "create_tenant"
    /\ lastWrite.status = 201
    /\ \E x \in tenants : x.slug = "acme" /\ \E u \in users :
           u.role = TENANT_ADMIN /\ u.tenant_id = x.id /\ u.id = nextUserId - 1
    /\ \E admin_email \in Emails :
           /\ UsersByEmail(users, admin_email) = {}
           /\ create_tenant_with_admin(users, tenants \ {x \in tenants : x.slug = "acme"}, "Acme",
                                       "acme", admin_email, "Alice", PwShort1, nextTenantId,
                                       nextUserId, "salt1").error # ""

(***************************************************************************)
(* C25  Cross-tenant isolation on chat sessions: no session is held by a   *)
(* user on a chat of another tenant, and no request is answered with a     *)
(* session on, a message through, or the chat (with its system prompt) of  *)
(* a tenant other than the caller's.  Stated for the callers that belong   *)
(* to a tenant.                                                            *)
(***************************************************************************)
AnsweredChatId ==
    IF call.fn = "create_session" THEN call.data.chat_id
    ELSE IF call.fn = "get_chat" THEN call.data.id
    ELSE (CHOOSE s \in sessions : s.id = call.data.session_id).chat_id

Superadmins(store) == {u.id : u \in {x \in store : x.role = SUPERADMIN}}

NoPrivilegeEscalation ==
    \A header \in SentHeaders :
        LET cu == get_current_active_user(users, header, 401, now)
        IN  (cu.ok /\ cu.user.role \in {TENANT_ADMIN, USER}) =>
                /\ \A role \in UserRole, tenant_id \in {NoId} \cup TenantIds :
                       LET o == create_user(users, tenants, header, 401, now, AliceEmail, PwStrong,
                                            "Alice", role, tenant_id, nextUserId, "salt1")
                       IN  /\ Superadmins(o.users) \subseteq Superadmins(users)
                           /\ o.new_user # NullUser =>
                                  Rank(o.new_user.role) <= Rank(cu.user.role)
                /\ \A userId \in UserIds, role \in UserRole :
                       LET o == update_user(users, tenants, header, 401, now, userId, "", role)
                       IN  /\ Superadmins(o.users) \subseteq Superadmins(users)
                           /\ \A u \in o.users \ users : Rank(u.role) <= Rank(cu.user.role)

(***************************************************************************)
(* C27  The guards of delete_user are composed with AND: a delete_user     *)
(* request removes a row only when the caller's stored role is             *)
(* tenant_admin or superadmin, the caller is a superadmin or the target    *)
(* has the caller's tenant id, and the target is not the caller; then it   *)
(* removes the target and nothing else.  Every other request is rejected   *)
(* and leaves the users as they are.                                       *)
(***************************************************************************)
DeleteGuardsPass(caller, target) ==
    /\ caller.role \in {TENANT_ADMIN, SUPERADMIN}
    /\ caller.role = SUPERADMIN \/ target.tenant_id = caller.tenant_id
    /\ target.id # caller.id

DeleteUserGuards ==
    \A header \in SentHeaders : \A st \in StatusChoices(header) : \A userId \in UserIds :
        LET cu == get_current_user(users, header, st, now)
            o == delete_user(users, tenants, header, st, now, userId)
            passes == /\ cu.ok
                      /\ \E target \in users : target.id = userId /\ DeleteGuardsPass(cu.user, target)
        IN  /\ o.users # users =>
                /\ passes
                /\ o.users = {u \in users : u.id # userId}
            /\ ~passes =>
                /\ o.status >= 400
                /\ o.users = users
                /\ o.tenants = tenants

\* A deletion has gone through, and the superadmin who is still there would
\* be refused the deletion of its own row.
DeleteUserGuardsWitness ==
    /\ lastWrite.op = "delete_user"
    /\ lastWrite.status = 204
    /\ \E header \in SentHeaders :
           LET cu == get_current_user(users, header, 401, now)
           IN  /\ cu.ok
               /\ cu.user.role = SUPERADMIN
               /\ delete_user(users, tenants, header, 401, now, cu.user.id).status >= 400

(***************************************************************************)
(* C28  The two implementations of the tenant-access decision agree:       *)
(* require_tenant_access admits a caller for a target tenant id (absent,   *)
(* or the text of an id) exactly when can_access_tenant returns true for   *)
(* the caller's tenant id, that target and the caller's role.              *)
(***************************************************************************)
TargetTexts == {""} \cup {ToString(i) : i \in 1..(MaxTenants + 1)}

\* The Optional[str] a target text stands for, as the id it is the text of.
TargetOf(tenant_id) ==
    IF tenant_id = "" THEN NoId ELSE CHOOSE i \in 1..(MaxTenants + 1) : ToString(i) = tenant_id

TenantAccessImplementationsAgree ==
    (call.fn = "require_tenant_access" /\ call.tenant_id \in TargetTexts) =>
        (call.result.ok <=> can_access_tenant(call.current_user.tenant_id,
                                              TargetOf(call.tenant_id),
                                              call.current_user.role))

(***************************************************************************)
(* C29  Tenant deletion cascade: delete_tenant_cascade(T) returns true     *)
(* exactly when a tenant T exists; then T and the users, documents and     *)
(* social links of T are gone and every other row is as it was; when it    *)
(* returns false every table is as it was.                                 *)
(***************************************************************************)
TenantDeletionCascade ==
    call.fn = "delete_tenant_cascade" =>
        /\ call.result <=> \E x \in call.tenants : x.id = call.tenant_id
        /\ call.result =>
             /\ tenants = {x \in call.tenants : x.id # call.tenant_id}
             /\ users = {u \in call.users : u.tenant_id # call.tenant_id}
             /\ documents = {d \in call.documents : d.tenant_id # call.tenant_id}
             /\ social_links = {l \in call.social_links : l.tenant_id # call.tenant_id}
        /\ ~call.result =>
             /\ tenants = call.tenants
             /\ users = call.users
             /\ documents = call.documents
             /\ social_links = call.social_links

\* The tenant deleted had a user, a document and a social link, and rows of
\* another tenant are left.
TenantDeletionCascadeWitness ==
    /\ call.fn = "delete_tenant_cascade"
    /\ call.result
    /\ \E u \in call.users : u.tenant_id = call.tenant_id
    /\ \E d \in call.documents : d.tenant_id = call.tenant_id
    /\ \E l \in call.social_links : l.tenant_id = call.tenant_id
    /\ tenants # {}
    /\ documents # {}
    /\ social_links # {}
    /\ \E u \in users : u.tenant_id # NoId

====
